---- MODULE Spec2Model ----
(***************************************************************************)
(* strace-to-duckdb: the line parser (src/src/parser.rs), the file         *)
(* scanners (src/src/processor.rs), the sequential driver (src/src/main.rs)*)
(* and the parallel pipeline (src/src/parallel_processor.rs).              *)
(*                                                                         *)
(* Text is a sequence of one-character strings; Rust's byte offsets are    *)
(* 0-based, so Slice(s, a, b) is s[a..b] and a "find" gives -1 for None.   *)
(***************************************************************************)
EXTENDS Integers, Sequences, FiniteSets, TLC

\* ------------------------------------------------------------------ text

None == [tag |-> "None"]
Some(x) == [tag |-> "Some", v |-> x]
Panic == [tag |-> "Panic"]

\* `let x = v; F(x)`: v is computed once, as a Rust `let` binding is
Let(v, F(_)) == CHOOSE r \in {F(x) : x \in {v}} : TRUE

\* s[a..b]; the caller has checked a <= b <= len (Rust panics otherwise)
Slice(s, a, b) == SubSeq(s, a + 1, b)

\* s[a..]
SliceFrom(s, a) == SubSeq(s, a + 1, Len(s))

\* Rust's s[a..b] panics when a > b or b > len
SliceOk(s, a, b) == a <= b /\ b <= Len(s)

\* whether pat occurs in s at 0-based offset i
MatchAt(s, pat, i) ==
    /\ i + Len(pat) <= Len(s)
    /\ \A k \in 1..Len(pat) : s[i + k] = pat[k]

\* str::find: offset of the first occurrence, -1 for None
Find(s, pat) ==
    IF \E i \in 0..Len(s) : MatchAt(s, pat, i)
    THEN CHOOSE i \in 0..Len(s) :
            MatchAt(s, pat, i) /\ \A j \in 0..(i - 1) : ~MatchAt(s, pat, j)
    ELSE -1

\* str::rfind: offset of the last occurrence, -1 for None
RFind(s, pat) ==
    IF \E i \in 0..Len(s) : MatchAt(s, pat, i)
    THEN CHOOSE i \in 0..Len(s) :
            MatchAt(s, pat, i) /\ \A j \in (i + 1)..Len(s) : ~MatchAt(s, pat, j)
    ELSE -1

Contains(s, pat) == \E i \in 0..Len(s) : MatchAt(s, pat, i)

StartsWith(s, pat) == MatchAt(s, pat, 0)

IsWhitespace(c) == c \in {" ", "\t"}

\* str::trim_start
TrimStart(s) ==
    IF \A i \in 1..Len(s) : IsWhitespace(s[i]) THEN <<>>
    ELSE SubSeq(s, CHOOSE i \in 1..Len(s) :
                      ~IsWhitespace(s[i]) /\ \A j \in 1..(i - 1) : IsWhitespace(s[j]),
                Len(s))

\* str::trim_end
TrimEnd(s) ==
    IF \A i \in 1..Len(s) : IsWhitespace(s[i]) THEN <<>>
    ELSE SubSeq(s, 1, CHOOSE i \in 1..Len(s) :
                         ~IsWhitespace(s[i]) /\ \A j \in (i + 1)..Len(s) : IsWhitespace(s[j]))

\* str::trim
Trim(s) == Let(TrimEnd(s), LAMBDA t : TrimStart(t))

\* ------------------------------------------------------------- numbers
\* An i64 is a sign and a magnitude; the magnitude is its decimal digits,
\* least significant first, without leading zeros (zero is <<>>), so that
\* values beyond the model checker's own integers stay exact.

DecDigits == <<"0", "1", "2", "3", "4", "5", "6", "7", "8", "9">>
HexLower == <<"a", "b", "c", "d", "e", "f">>
HexUpper == <<"A", "B", "C", "D", "E", "F">>

IsDigit(c, radix) ==
    \/ \E i \in 1..10 : DecDigits[i] = c
    \/ radix = 16 /\ \E i \in 1..6 : HexLower[i] = c \/ HexUpper[i] = c

DigitVal(c) ==
    IF \E i \in 1..10 : DecDigits[i] = c
    THEN (CHOOSE i \in 1..10 : DecDigits[i] = c) - 1
    ELSE IF \E i \in 1..6 : HexLower[i] = c
         THEN (CHOOSE i \in 1..6 : HexLower[i] = c) + 9
         ELSE (CHOOSE i \in 1..6 : HexUpper[i] = c) + 9

\* the carry into digit i of mag * m + add (digits are numbered from 1, the
\* least significant)
RECURSIVE Carry(_, _, _, _)
Carry(mag, m, add, i) ==
    IF i = 1 THEN add
    ELSE ((IF i - 1 <= Len(mag) THEN mag[i - 1] ELSE 0) * m
          + Carry(mag, m, add, i - 1)) \div 10

\* the magnitude without its leading zeros
StripZeros(mag) ==
    IF \A i \in 1..Len(mag) : mag[i] = 0 THEN <<>>
    ELSE SubSeq(mag, 1, CHOOSE i \in 1..Len(mag) :
                           mag[i] # 0 /\ \A j \in (i + 1)..Len(mag) : mag[j] = 0)

\* mag * m + add, for m <= 16 and add < 16: at most two digits longer
MulAdd(mag, m, add) ==
    StripZeros([i \in 1..(Len(mag) + 2) |->
                   ((IF i <= Len(mag) THEN mag[i] ELSE 0) * m
                    + Carry(mag, m, add, i)) % 10])

RECURSIVE Magnitude(_, _, _)
\* the value of the first n digits of text (most significant first) in the
\* radix: each digit is added to radix times the value so far
Magnitude(text, radix, n) ==
    IF n = 0 THEN <<>>
    ELSE Let(Magnitude(text, radix, n - 1),
             LAMBDA acc : MulAdd(acc, radix, DigitVal(text[n])))

\* i64::MAX = 9223372036854775807, least significant digit first
MaxI64Mag == <<7, 0, 8, 5, 7, 7, 4, 5, 8, 6, 3, 0, 2, 7, 3, 3, 2, 2, 9>>
\* |i64::MIN| = 9223372036854775808
MinI64Mag == <<8, 0, 8, 5, 7, 7, 4, 5, 8, 6, 3, 0, 2, 7, 3, 3, 2, 2, 9>>

\* a <= b on magnitudes
MagLeq(a, b) ==
    \/ Len(a) < Len(b)
    \/ /\ Len(a) = Len(b)
       /\ \/ a = b
          \/ \E i \in 1..Len(a) :
                /\ a[i] < b[i]
                /\ \A j \in (i + 1)..Len(a) : a[j] = b[j]

I64(neg, mag) == [neg |-> neg /\ mag # <<>>, mag |-> mag]

\* i64::from_str_radix (str::parse::<i64> is radix 10): an optional sign, then
\* at least one digit, the value within the i64 range; None otherwise
from_str_radix(text, radix) ==
    LET signed == text # <<>> /\ Head(text) \in {"+", "-"}
        neg == text # <<>> /\ Head(text) = "-"
    IN  Let(IF signed THEN Tail(text) ELSE text, LAMBDA digits :
        IF digits = <<>> \/ \E i \in 1..Len(digits) : ~IsDigit(digits[i], radix)
        THEN None
        ELSE Let(Magnitude(digits, radix, Len(digits)), LAMBDA mag :
             IF MagLeq(mag, IF neg THEN MinI64Mag ELSE MaxI64Mag)
             THEN Some(I64(neg, mag))
             ELSE None))

\* the `-v` of line 65: i64::MIN has no negation; the build decides whether
\* that panics (overflow checks on) or wraps to i64::MIN (overflow checks off)
Negate(opt, overflow_checks) ==
    IF opt.tag # "Some" THEN opt
    ELSE IF opt.v.neg /\ opt.v.mag = MinI64Mag
         THEN IF overflow_checks THEN Panic ELSE opt
         ELSE Some(I64(~opt.v.neg, opt.v.mag))

\* --------------------------------------------------------------- floats
\* An f64 is kept as its decimal reading: sign, digits and a power of ten,
\* normalised so that equal decimals are equal values.

Lower(c) ==
    CASE c = "I" -> "i" [] c = "N" -> "n" [] c = "F" -> "f" [] c = "A" -> "a"
      [] c = "T" -> "t" [] c = "Y" -> "y" [] c = "E" -> "e" [] OTHER -> c

LowerAll(s) == [i \in 1..Len(s) |-> Lower(s[i])]

AllDigits(s) == \A i \in 1..Len(s) : IsDigit(s[i], 10)

RECURSIVE SmallInt(_, _)
\* the first n of a short run of decimal digits, as a number
SmallInt(text, n) ==
    IF n = 0 THEN 0 ELSE SmallInt(text, n - 1) * 10 + DigitVal(text[n])

\* the number of low-order zeros of a non-zero magnitude
LowZeros(mag) ==
    (CHOOSE i \in 1..Len(mag) : mag[i] # 0 /\ \A j \in 1..(i - 1) : mag[j] = 0) - 1

\* drop the low-order zeros of a magnitude into the exponent
Normalise(mag, exp) ==
    IF mag = <<>> THEN [mag |-> <<>>, exp |-> 0]
    ELSE [mag |-> SubSeq(mag, LowZeros(mag) + 1, Len(mag)), exp |-> exp + LowZeros(mag)]

\* the value of a checked decimal float: its digits, fraction and exponent
Decimal(neg, int, frac, eneg, edigits) ==
    Let(Magnitude(int \o frac, 10, Len(int) + Len(frac)), LAMBDA mag :
    Let(Normalise(mag, (IF eneg THEN 0 - SmallInt(edigits, Len(edigits))
                        ELSE SmallInt(edigits, Len(edigits))) - Len(frac)),
        LAMBDA n : [kind |-> "num", neg |-> neg, mag |-> n.mag, exp |-> n.exp]))

\* str::parse::<f64>: [sign] (inf | infinity | nan | digits [. digits] [e [sign] digits])
\* with at least one mantissa digit; None otherwise
parse_f64(text) ==
    LET signed == text # <<>> /\ Head(text) \in {"+", "-"}
        neg == text # <<>> /\ Head(text) = "-"
    IN  Let(LowerAll(IF signed THEN Tail(text) ELSE text), LAMBDA body :
        Let(Find(body, <<"e">>), LAMBDA epos :
        Let(IF epos < 0 THEN body ELSE Slice(body, 0, epos), LAMBDA mantissa :
        Let(IF epos < 0 THEN <<>> ELSE SliceFrom(body, epos + 1), LAMBDA exponent :
        Let(Find(mantissa, <<".">>), LAMBDA dot :
        LET esigned == exponent # <<>> /\ Head(exponent) \in {"+", "-"}
            eneg == exponent # <<>> /\ Head(exponent) = "-"
        IN  Let(IF esigned THEN Tail(exponent) ELSE exponent, LAMBDA edigits :
            Let(IF dot < 0 THEN mantissa ELSE Slice(mantissa, 0, dot), LAMBDA int :
            Let(IF dot < 0 THEN <<>> ELSE SliceFrom(mantissa, dot + 1), LAMBDA frac :
            IF body \in {<<"i", "n", "f">>, <<"i", "n", "f", "i", "n", "i", "t", "y">>}
            THEN Some([kind |-> "inf", neg |-> neg, mag |-> <<>>, exp |-> 0])
            ELSE IF body = <<"n", "a", "n">>
            THEN Some([kind |-> "nan", neg |-> neg, mag |-> <<>>, exp |-> 0])
            ELSE IF \/ ~AllDigits(int) \/ ~AllDigits(frac) \/ int \o frac = <<>>
                    \/ epos >= 0 /\ (edigits = <<>> \/ ~AllDigits(edigits))
            THEN None
            ELSE Some(Decimal(neg, int, frac, eneg, edigits))))))))))

\* --------------------------------------------------------------- parser

UnfinishedMarker ==
    <<"<", "u", "n", "f", "i", "n", "i", "s", "h", "e", "d", " ", ".", ".", ".", ">">>
ResumedMarker == <<"r", "e", "s", "u", "m", "e", "d", ">">>
ResumedOpen == <<"<", ".", ".", ".", " ">>
ResumedClose == <<" ">> \o ResumedMarker

Syscall(timestamp, syscall, args, return_value, error_code, error_message, duration, unfinished, resumed) ==
    [timestamp |-> timestamp, syscall |-> syscall, args |-> args,
     return_value |-> return_value, error_code |-> error_code,
     error_message |-> error_message, duration |-> duration,
     unfinished |-> unfinished, resumed |-> resumed]

\* str::split_once(' '): None, or the text before and after the first space
split_once(line) ==
    Let(Find(line, <<" ">>), LAMBDA sp :
        IF sp < 0 THEN None
        ELSE Some([timestamp |-> Slice(line, 0, sp), rest |-> SliceFrom(line, sp + 1)]))

\* a return region read without looking for a duration
find_duration_none(after_equals) == Some(None)

\* "Find duration": Some(duration) with the duration itself an Option, None
\* when the function returns None, Panic when the slice bounds are reversed
find_duration(after_equals) ==
    Let(RFind(after_equals, <<"<">>), LAMBDA duration_start :
    Let(RFind(after_equals, <<">">>), LAMBDA duration_end :
        IF duration_start < 0 THEN Some(None)
        ELSE IF duration_end < 0 THEN None
        ELSE IF ~SliceOk(after_equals, duration_start + 1, duration_end) THEN Panic
        ELSE Let(Slice(after_equals, duration_start + 1, duration_end),
                 LAMBDA duration_str : Some(parse_f64(duration_str)))))

\* "Remove duration part"
before_duration(after_equals) ==
    Let(RFind(after_equals, <<"<">>), LAMBDA pos :
        IF pos >= 0 THEN Trim(Slice(after_equals, 0, pos)) ELSE Trim(after_equals))

\* before_duration.splitn(2, ' ')
splitn2(text) ==
    Let(Find(text, <<" ">>), LAMBDA sp :
        IF sp < 0 THEN <<text>> ELSE <<Slice(text, 0, sp), SliceFrom(text, sp + 1)>>)

\* a return value read as decimal whatever its prefix
parse_return_value_decimal(return_value_str, overflow_checks) ==
    from_str_radix(return_value_str, 10)

\* "Parse return value (handle hex like 0x55edad95f000)": an Option<i64>, or
\* Panic when the negation overflows in a build with overflow checks
parse_return_value(return_value_str, overflow_checks) ==
    IF StartsWith(return_value_str, <<"0", "x">>)
    THEN Let(SliceFrom(return_value_str, 2), LAMBDA hex : from_str_radix(hex, 16))
    ELSE IF StartsWith(return_value_str, <<"-", "0", "x">>)
    THEN Let(SliceFrom(return_value_str, 3), LAMBDA hex :
         Let(from_str_radix(hex, 16), LAMBDA v : Negate(v, overflow_checks)))
    ELSE from_str_radix(return_value_str, 10)

\* an error part taken whole as the code, parentheses or not
parse_error_part_whole(error_part) ==
    Some([error_code |-> Some(error_part), error_message |-> None])

\* "Parse error code and message if present", on parts[1]: Some of the two
\* Options, None when the function returns None, Panic when the slice bounds
\* are reversed
parse_error_part(error_part) ==
    Let(Find(error_part, <<"(">>), LAMBDA paren_pos :
    Let(RFind(error_part, <<")">>), LAMBDA msg_end :
        IF paren_pos >= 0
        THEN IF msg_end < 0 THEN None
             ELSE IF ~SliceOk(error_part, paren_pos + 1, msg_end) THEN Panic
             ELSE Some([error_code |-> Some(Trim(Slice(error_part, 0, paren_pos))),
                        error_message |-> Some(Slice(error_part, paren_pos + 1, msg_end))])
        ELSE Some([error_code |-> Some(error_part), error_message |-> None])))

parse_error(parts) ==
    IF Len(parts) > 1 THEN Let(parts[2], LAMBDA error_part : parse_error_part(error_part))
    ELSE Some([error_code |-> None, error_message |-> None])

\* the return region, shared text of parse_regular and parse_resumed: the
\* duration, the return value and the error, in the order the code takes them
parse_tail(timestamp, syscall, args, after_equals, resumed, overflow_checks) ==
    Let(find_duration(after_equals), LAMBDA duration :
    IF duration.tag # "Some" THEN duration
    ELSE Let(before_duration(after_equals), LAMBDA before :
         Let(splitn2(before), LAMBDA parts :
         Let(parts[1], LAMBDA return_value_str :
         Let(parse_return_value(return_value_str, overflow_checks), LAMBDA return_value :
         IF return_value.tag = "Panic" THEN Panic
         ELSE Let(parse_error(parts), LAMBDA err :
              IF err.tag # "Some" THEN err
              ELSE Some(Syscall(timestamp, syscall, args, return_value,
                                err.v.error_code, err.v.error_message, duration.v,
                                FALSE, resumed))))))))

\* a regular parser that ends the arguments at the last ')' of the line
parse_regular_rest_last(timestamp, rest, overflow_checks) ==
    Let(Find(rest, <<"(">>), LAMBDA paren_pos :
    IF paren_pos < 0 THEN None
    ELSE Let(SliceFrom(rest, paren_pos + 1), LAMBDA rest_from_paren :
         Let(RFind(rest_from_paren, <<")">>), LAMBDA close_paren_pos :
         IF close_paren_pos < 0 THEN None
         ELSE Let(TrimStart(SliceFrom(rest_from_paren, close_paren_pos + 1)),
                  LAMBDA after_close_paren :
              IF ~StartsWith(after_close_paren, <<"=", " ">>) THEN None
              ELSE Let(TrimStart(SliceFrom(after_close_paren, 1)), LAMBDA after_equals :
                   Let(Trim(Slice(rest, 0, paren_pos)), LAMBDA syscall :
                   Let(Slice(rest_from_paren, 0, close_paren_pos), LAMBDA args :
                       parse_tail(timestamp, syscall, args, after_equals, FALSE,
                                  overflow_checks))))))))

\* parse_regular once the timestamp is split off
parse_regular_rest(timestamp, rest, overflow_checks) ==
    Let(Find(rest, <<"(">>), LAMBDA paren_pos :
    IF paren_pos < 0 THEN None
    ELSE Let(SliceFrom(rest, paren_pos + 1), LAMBDA rest_from_paren :
         Let(Find(rest_from_paren, <<")">>), LAMBDA close_paren_pos :
         IF close_paren_pos < 0 THEN None
         ELSE Let(TrimStart(SliceFrom(rest_from_paren, close_paren_pos + 1)),
                  LAMBDA after_close_paren :
              IF ~StartsWith(after_close_paren, <<"=", " ">>) THEN None
              ELSE Let(TrimStart(SliceFrom(after_close_paren, 1)), LAMBDA after_equals :
                   Let(Trim(Slice(rest, 0, paren_pos)), LAMBDA syscall :
                   Let(Slice(rest_from_paren, 0, close_paren_pos), LAMBDA args :
                       parse_tail(timestamp, syscall, args, after_equals, FALSE,
                                  overflow_checks))))))))

\* a regular parser that sets both flags on the Event it builds
parse_regular_flagged(line, overflow_checks) ==
    Let(split_once(line), LAMBDA split :
        IF split.tag = "None" THEN None
        ELSE Let(parse_regular_rest(split.v.timestamp, split.v.rest, overflow_checks),
                 LAMBDA r : IF r.tag # "Some" THEN r
                            ELSE Some([r.v EXCEPT !.unfinished = TRUE, !.resumed = TRUE])))

\* Parse a regular strace line: HH:MM:SS.micro syscall(args) = ret <duration>
parse_regular(line, overflow_checks) ==
    Let(split_once(line), LAMBDA split :
        IF split.tag = "None" THEN None
        ELSE parse_regular_rest(split.v.timestamp, split.v.rest, overflow_checks))

\* parse_unfinished once the timestamp is split off
parse_unfinished_rest(timestamp, rest) ==
    Let(Find(rest, <<"(">>), LAMBDA paren_pos :
    IF paren_pos < 0 THEN None
    ELSE Let(SliceFrom(rest, paren_pos + 1), LAMBDA rest_from_paren :
         Let(Find(rest_from_paren, UnfinishedMarker), LAMBDA unfinished_pos :
         IF unfinished_pos < 0 THEN None
         ELSE Let(Trim(Slice(rest, 0, paren_pos)), LAMBDA syscall :
              Let(Trim(Slice(rest_from_paren, 0, unfinished_pos)), LAMBDA args :
                  Some(Syscall(timestamp, syscall, args, None, None, None, None,
                               TRUE, FALSE)))))))

\* Parse an unfinished strace line: HH:MM:SS.micro syscall(args <unfinished ...>) = ?
parse_unfinished(line) ==
    IF ~Contains(line, UnfinishedMarker) THEN None
    ELSE Let(split_once(line), LAMBDA split :
             IF split.tag = "None" THEN None
             ELSE parse_unfinished_rest(split.v.timestamp, split.v.rest))

\* parse_resumed once the timestamp is split off
parse_resumed_rest(timestamp, rest, overflow_checks) ==
    Let(Find(rest, ResumedOpen), LAMBDA resumed_start :
    Let(Find(rest, ResumedClose), LAMBDA resumed_end :
    IF resumed_start < 0 THEN None
    ELSE IF resumed_end < 0 THEN None
    ELSE IF ~SliceOk(rest, resumed_start + 5, resumed_end) THEN Panic
    ELSE Let(SliceFrom(rest, resumed_end + 9), LAMBDA after_resumed :
         Let(Find(after_resumed, <<")">>), LAMBDA close_paren_pos :
         Let(Find(after_resumed, <<" ", "=", " ">>), LAMBDA equals_pos :
         IF close_paren_pos < 0 THEN None
         ELSE IF equals_pos < 0 THEN None
         ELSE Let(Slice(rest, resumed_start + 5, resumed_end), LAMBDA syscall :
              Let(Slice(after_resumed, 0, close_paren_pos), LAMBDA args :
              Let(SliceFrom(after_resumed, equals_pos + 3), LAMBDA after_equals :
                  parse_tail(timestamp, syscall, args, after_equals, TRUE,
                             overflow_checks)))))))))

\* Parse a resumed strace line: HH:MM:SS.micro <... syscall resumed>args) = ret
parse_resumed(line, overflow_checks) ==
    IF ~Contains(line, ResumedMarker) THEN None
    ELSE Let(split_once(line), LAMBDA split :
             IF split.tag = "None" THEN None
             ELSE parse_resumed_rest(split.v.timestamp, split.v.rest, overflow_checks))

\* Parse any strace line by trying all formats: Option::or_else runs the next
\* parser only on None; a panic unwinds through it
parse_line(line, overflow_checks) ==
    Let(parse_unfinished(line), LAMBDA unfinished :
    IF unfinished.tag # "None" THEN unfinished
    ELSE Let(parse_resumed(line, overflow_checks), LAMBDA resumed :
         IF resumed.tag # "None" THEN resumed
         ELSE parse_regular(line, overflow_checks)))

\* ------------------------------------------------------------- scanners

ProcessStats(total, parsed, failed) ==
    [total_lines |-> total, parsed_lines |-> parsed, failed_lines |-> failed]

ZeroStats == ProcessStats(0, 0, 0)

\* field-wise sum of two ProcessStats
AddStats(a, b) ==
    ProcessStats(a.total_lines + b.total_lines, a.parsed_lines + b.parsed_lines,
                 a.failed_lines + b.failed_lines)

\* what reader.lines() yields: a line of text, or an I/O error
ReadOk(text) == [io |-> "Ok", text |-> text]
ReadErr == [io |-> "Err", text |-> <<>>]

\* a file on disk: whether File::open succeeds, and what its lines read as
TraceFile(openable, lines) == [openable |-> openable, lines |-> lines]

\* a scan that starts from counts that are not fresh
ScanStartStale == [tag |-> "Run", stats |-> ProcessStats(1, 1, 0), rows |-> 0]

\* the state of a scan as its loop starts
ScanStart == [tag |-> "Run", stats |-> ZeroStats, rows |-> 0]

\* the body of the `for line_result in reader.lines()` loop of
\* process_file_with_appender on one line. st.tag is "Run" while the loop
\* goes on, "Err" or "Panic" once it has left; st.rows counts the rows this
\* call has handed to the appender; append_ok is the outcome of append_row
scan_line_with_appender(st, line_result, append_ok, overflow_checks) ==
    IF st.tag # "Run" THEN st
    ELSE IF line_result.io = "Err" THEN [st EXCEPT !.tag = "Err"]
    ELSE Let([st EXCEPT !.stats.total_lines = @ + 1], LAMBDA seen :
         Let(parse_line(line_result.text, overflow_checks), LAMBDA syscall :
             IF syscall.tag = "Panic" THEN [seen EXCEPT !.tag = "Panic"]
             ELSE IF syscall.tag = "Some"
             THEN IF append_ok
                  THEN [seen EXCEPT !.stats.parsed_lines = @ + 1, !.rows = @ + 1]
                  ELSE [seen EXCEPT !.tag = "Err"]
             ELSE [seen EXCEPT !.stats.failed_lines = @ + 1]))

\* i32::MAX = 2147483647, least significant digit first
MaxI32Mag == <<7, 4, 6, 3, 8, 4, 7, 4, 1, 2>>
\* |i32::MIN| = 2147483648
MinI32Mag == <<8, 4, 6, 3, 8, 4, 7, 4, 1, 2>>

\* str::parse::<i32>: an optional sign, then at least one decimal digit, the
\* value within the i32 range; None otherwise
parse_i32(text) ==
    LET signed == text # <<>> /\ Head(text) \in {"+", "-"}
        neg == text # <<>> /\ Head(text) = "-"
    IN  Let(IF signed THEN Tail(text) ELSE text, LAMBDA digits :
        IF digits = <<>> \/ \E i \in 1..Len(digits) : ~IsDigit(digits[i], 10)
        THEN None
        ELSE Let(Magnitude(digits, 10, Len(digits)), LAMBDA mag :
             IF MagLeq(mag, IF neg THEN MinI32Mag ELSE MaxI32Mag)
             THEN Some(I64(neg, mag))
             ELSE None))

\* the text after the first '.', the whole name when it has none
split_second(filename) ==
    Let(Find(filename, <<".">>), LAMBDA dot :
        IF dot < 0 THEN filename ELSE SliceFrom(filename, dot + 1))

\* filename.rsplit('.').next(): the text after the last '.', the whole name
\* when it has none (the iterator always yields an item)
rsplit_next(filename) ==
    Let(RFind(filename, <<".">>), LAMBDA dot :
        IF dot < 0 THEN filename ELSE SliceFrom(filename, dot + 1))

\* Extract PID from filename like "trace.12345" -> Some(12345)
extract_pid(filename) == parse_i32(rsplit_next(filename))

\* extract_pid(filename).unwrap_or(0): the pid stored with the file's rows
stored_pid(filename) ==
    Let(extract_pid(filename), LAMBDA found :
        IF found.tag = "Some" THEN found.v ELSE I64(FALSE, <<>>))

RECURSIVE scan_with_appender(_, _, _, _, _)
\* the loop over the lines, the first n of them done; fail_at is the line
\* whose append_row fails (0: none)
scan_with_appender(st, lines, n, fail_at, overflow_checks) ==
    IF n = Len(lines) THEN st
    ELSE Let(scan_line_with_appender(st, lines[n + 1], fail_at # n + 1, overflow_checks),
             LAMBDA next : scan_with_appender(next, lines, n + 1, fail_at, overflow_checks))

\* Process a file using a provided appender: Ok(stats), Err or Panic, and the
\* rows appended on the way
process_file_with_appender(file, fail_at, overflow_checks) ==
    IF ~file.openable THEN [tag |-> "Err", stats |-> ZeroStats, rows |-> 0]
    ELSE Let(scan_with_appender(ScanStart, file.lines, 0, fail_at, overflow_checks),
             LAMBDA st : IF st.tag = "Run" THEN [st EXCEPT !.tag = "Ok"] ELSE st)

\* a loop body that reads over a line the parser rejects without counting it
scan_line_uncounted(st, line_result, overflow_checks) ==
    IF st.tag # "Run" THEN st
    ELSE IF line_result.io = "Err" THEN [st EXCEPT !.tag = "Err"]
    ELSE Let([st EXCEPT !.stats.total_lines = @ + 1], LAMBDA seen :
         Let(parse_line(line_result.text, overflow_checks), LAMBDA syscall :
             IF syscall.tag = "Panic" THEN [seen EXCEPT !.tag = "Panic"]
             ELSE IF syscall.tag = "Some"
             THEN [seen EXCEPT !.stats.parsed_lines = @ + 1, !.rows = @ + 1]
             ELSE seen))

\* the body of the loop of process_file on one line: parsed events are pushed
\* to the `syscalls` vector (st.rows counts them), nothing reaches the sink
scan_line(st, line_result, overflow_checks) ==
    IF st.tag # "Run" THEN st
    ELSE IF line_result.io = "Err" THEN [st EXCEPT !.tag = "Err"]
    ELSE Let([st EXCEPT !.stats.total_lines = @ + 1], LAMBDA seen :
         Let(parse_line(line_result.text, overflow_checks), LAMBDA syscall :
             IF syscall.tag = "Panic" THEN [seen EXCEPT !.tag = "Panic"]
             ELSE IF syscall.tag = "Some"
             THEN [seen EXCEPT !.stats.parsed_lines = @ + 1, !.rows = @ + 1]
             ELSE [seen EXCEPT !.stats.failed_lines = @ + 1]))

RECURSIVE scan(_, _, _, _)
\* the loop over the lines, the first n of them done
scan(st, lines, n, overflow_checks) ==
    IF n = Len(lines) THEN st
    ELSE Let(scan_line(st, lines[n + 1], overflow_checks),
             LAMBDA next : scan(next, lines, n + 1, overflow_checks))

\* Process a single trace file and insert into database using batch appender:
\* Ok(stats), Err or Panic, and the rows of a batch that append_batch
\* completed (what a failed batch leaves in the sink is not decided here)
process_file(file, batch_ok, overflow_checks) ==
    IF ~file.openable THEN [tag |-> "Err", stats |-> ZeroStats, rows |-> 0]
    ELSE Let(scan(ScanStart, file.lines, 0, overflow_checks), LAMBDA st :
             IF st.tag # "Run" THEN [st EXCEPT !.rows = 0]
             ELSE IF st.rows > 0 /\ ~batch_ok THEN [st EXCEPT !.tag = "Err", !.rows = 0]
             ELSE [st EXCEPT !.tag = "Ok"])

\* --------------------------------------------------------------- inputs

\* a complete line the parser accepts
LineOk == <<"T", " ", "f", "(", ")", " ", "=", " ", "0">>
\* a line the parser rejects
LineBad == <<"g", "a", "r", "b", "a", "g", "e">>
\* a line whose '<' follows its last '>' in the return region
LineReversed == <<"T", " ", "f", "(", ")", " ", "=", " ", "0", " ", ">", " ", "<">>

\* the files the runs are given: their contents are drawn from these
FileKinds ==
    { TraceFile(TRUE, <<ReadOk(LineOk), ReadOk(LineBad)>>),
      TraceFile(FALSE, <<>>),
      TraceFile(TRUE, <<ReadOk(LineOk), ReadErr>>),
      TraceFile(TRUE, <<ReadOk(LineOk), ReadOk(LineReversed)>>) }

\* the longest list of input files
MaxFiles == 2
\* num_cpus::get()
NumWorkers == 2
\* how many sink operations (open, clone, appender, append, flush) may fail
MaxFaults == 1
\* the longest input line of the parser runs, in tokens
MaxTokens == 3

\* process_file_with_appender on each of the files, for each line whose
\* append_row may fail and either build
WithAppenderResults ==
    [file \in FileKinds |->
        [fail_at \in 0..Len(file.lines) |->
            [overflow_checks \in BOOLEAN |->
                process_file_with_appender(file, fail_at, overflow_checks)]]]

\* process_file on each of the files, for either outcome of append_batch and
\* either build
ProcessFileResults ==
    [file \in FileKinds |->
        [batch_ok \in BOOLEAN |->
            [overflow_checks \in BOOLEAN |->
                process_file(file, batch_ok, overflow_checks)]]]

FileLists == UNION {[1..n -> FileKinds] : n \in 1..MaxFiles}

Workers == 0..(NumWorkers - 1)

\* the pieces the parser's input lines are put together from
Tokens ==
    { <<"T", " ">>,
      <<"T", " ", "f", "(", ")", " ", "=", " ", "0", " ">>,
      <<"T", " ", "f", "(", ")", " ", "=", " ">>,
      <<"T", " ", "<", ".", ".", ".", " ", "f", " ", "r", "e", "s", "u", "m", "e", "d", ">", ")", " ", "=", " ", "0", " ">>,
      <<"f", "(", "a", " ", "<", "u", "n", "f", "i", "n", "i", "s", "h", "e", "d", " ", ".", ".", ".", ">">>,
      <<" ", "r", "e", "s", "u", "m", "e", "d", ">">>,
      <<"<", ".", ".", ".", " ">>,
      <<"<">>,
      <<">">>,
      <<"(">>,
      <<")">>,
      <<"<", "0", ".", "5", ">">>,
      <<"E">>,
      <<"-", "1", " ">>,
      <<"-", "0", "x", "-", "8", "0", "0", "0", "0", "0", "0", "0", "0", "0", "0", "0", "0", "0", "0", "0">> }

\* the fields the well-formed input lines are put together from
Timestamps == { <<"T">> }
CallNames == { <<"f">>, <<"b", "r", "k">> }
PlainArgs == { <<>>, <<"a">> }
NestedArgs == <<"a", "(", "b", ")", ",", " ", "c">>
ArgTexts == PlainArgs \cup {NestedArgs}

Hex55 == <<"0", "x", "5", "5", "e", "d", "a", "d", "9", "5", "f", "0", "0", "0">>
HexMinus10 == <<"-", "0", "x", "1", "0">>
I64MaxText == <<"9", "2", "2", "3", "3", "7", "2", "0", "3", "6", "8", "5", "4", "7", "7", "5", "8", "0", "7">>
I64MaxPlus1Text == <<"9", "2", "2", "3", "3", "7", "2", "0", "3", "6", "8", "5", "4", "7", "7", "5", "8", "0", "8">>
DecimalTokens == { <<"0">>, <<"4", "2">>, I64MaxText, I64MaxPlus1Text }

Enoent == <<"E", "N", "O", "E", "N", "T">>
NoSuchFile == <<"N", "o", " ", "s", "u", "c", "h", " ", "f", "i", "l", "e", " ", "o", "r", " ", "d", "i", "r", "e", "c", "t", "o", "r", "y">>
ErrorCodes == { Enoent, <<"E", " ", "F">> }
ErrorMessages == { NoSuchFile, <<"m">> }
MinusOne == <<"-", "1">>

\* the second token `CODE (message)`
CodeAndMessage(code, msg) == code \o <<" ", "(">> \o msg \o <<")">>
\* a return token followed by its error part
WithError(ret, error_part) == ret \o <<" ">> \o error_part

ReturnRegions ==
    DecimalTokens \cup {Hex55, HexMinus10}
    \cup {WithError(MinusOne, code) : code \in ErrorCodes}
    \cup {WithError(MinusOne, CodeAndMessage(code, msg)) : code \in ErrorCodes, msg \in ErrorMessages}

DurationHalf == <<"0", ".", "5">>
DurationMicro == <<"0", ".", "0", "0", "0", "0", "0", "4">>
\* the trailing `<seconds>` block, <<>> for a line without one
Durations == { <<>>, DurationHalf, DurationMicro }

DurationBlock(dur) == IF dur = <<>> THEN <<>> ELSE <<" ", "<">> \o dur \o <<">">>

\* TS NAME(ARGS) = REGION <D>
RegularLine(ts, name, args, region, dur) ==
    ts \o <<" ">> \o name \o <<"(">> \o args \o <<")", " ", "=", " ">> \o region
       \o DurationBlock(dur)

\* TS NAME(ARGS <unfinished ...>
UnfinishedLine(ts, name, args) ==
    ts \o <<" ">> \o name \o <<"(">> \o args \o <<" ">> \o UnfinishedMarker

\* TS <... NAME resumed>ARGS) = REGION <D>
ResumedLine(ts, name, args, region, dur) ==
    ts \o <<" ">> \o ResumedOpen \o name \o ResumedClose \o args
       \o <<")", " ", "=", " ">> \o region \o DurationBlock(dur)

FormatLines ==
    {RegularLine(ts, name, args, region, dur) :
        ts \in Timestamps, name \in CallNames, args \in ArgTexts,
        region \in ReturnRegions, dur \in Durations}
    \cup {UnfinishedLine(ts, name, args) :
        ts \in Timestamps, name \in CallNames, args \in ArgTexts}
    \cup {ResumedLine(ts, name, args, region, dur) :
        ts \in Timestamps, name \in CallNames, args \in PlainArgs,
        region \in ReturnRegions, dur \in Durations}

RECURSIVE Concat(_)
Concat(ts) == IF ts = <<>> THEN <<>> ELSE Head(ts) \o Concat(Tail(ts))

TokenLines == {Concat(ts) : ts \in UNION {[1..n -> Tokens] : n \in 0..MaxTokens}}

InputLines == TokenLines \cup FormatLines

\* ---------------------------------------------------------------- state

VARIABLES
    input_line,       \* parser runs: the line handed to parse_line
    parse_result,     \* parser runs: what parse_line gave ("Pending" before)
    files,            \* args.files: the trace files, in the order supplied
    sequential,       \* args.sequential
    faults,           \* sink operations that have failed so far
    mainpc,           \* where main is
    idx,              \* main's loop index (file or worker)
    file_stats,       \* main.rs: `stats`, the result of the last process_file
    total_stats,      \* main.rs: `total_stats`
    sink,             \* rows visible in the syscalls table
    queue,            \* the channel: indices into files, oldest first
    sender_alive,     \* whether the channel's only sender still exists
    wpc,              \* where each worker is
    cur,              \* each worker's `file_path` (an index into files)
    wstats,           \* each worker's `stats` of the file it completed
    done,             \* each worker's `done`
    appender,         \* rows each worker's appender holds unflushed
    total_lines,      \* AtomicUsize
    parsed_lines,     \* AtomicUsize
    failed_lines,     \* AtomicUsize
    files_processed,  \* AtomicUsize
    position,         \* overall_progress's position
    joined,           \* what main's join of each worker reported
    hist,             \* per file: who received it, scans begun, the scan's result
    baseline,         \* the outcome of an earlier sequential run on the same files
    scanner,          \* scanner runs: the file, the variant, lines read, the loop's state
    split,            \* split runs: the lines, their split, the three scans' results
    file_name,        \* pid runs: the file name handed to extract_pid
    pid,              \* pid runs: what extract_pid gave and the pid stored with the rows
    grammars,         \* grammar runs: the build and what each grammar gave for input_line
    tails             \* tail runs: a tail, its two lines and what their grammars gave

vars ==
    <<input_line, parse_result, files, sequential, faults, mainpc, idx, file_stats,
      total_stats, sink, queue, sender_alive, wpc, cur, wstats, done, appender,
      total_lines, parsed_lines, failed_lines, files_processed, position, joined,
      hist, baseline, scanner, split, file_name, pid, grammars, tails>>

parser_vars == <<input_line, parse_result>>
main_vars == <<mainpc, idx, file_stats, total_stats>>
worker_vars == <<wpc, cur, wstats, done, appender>>
counter_vars == <<total_lines, parsed_lines, failed_lines, files_processed, position>>
args_vars == <<files, sequential, baseline>>
scan_vars == <<scanner, split>>
unit_vars == <<file_name, pid, grammars, tails>>

Pending == [tag |-> "Pending"]
NoBaseline == [exit |-> "none", stats |-> ZeroStats, rows |-> 0]
NoHist == [claimed_by |-> <<>>, scans |-> 0, result |-> "none", stats |-> ZeroStats]

\* where a worker thread has ended: Ok(()), Err from its setup, Err from its
\* flush, a panic
Exited == {"exit_ok", "setup_err", "exit_err", "panicked"}
MainExited == {"exit_ok", "exit_err", "exit_panic"}

\* no scanner run and no split run is under way
NoScanner == [lines |-> <<>>, with_appender |-> FALSE, n |-> 0, st |-> [tag |-> "Idle"]]
NoSplit == [lines |-> <<>>, mask |-> <<>>, overflow_checks |-> FALSE,
            whole |-> Pending, first |-> Pending, second |-> Pending]
ScanIdle == scanner = NoScanner /\ split = NoSplit

\* no pid run, no grammar run and no tail run is under way
NoGrammars == [overflow_checks |-> FALSE, unfinished |-> Pending, resumed |-> Pending,
               regular |-> Pending]
NoTails == [tail |-> <<>>, overflow_checks |-> FALSE, resumed |-> Pending, regular |-> Pending]
UnitIdle == file_name = <<>> /\ pid = Pending /\ grammars = NoGrammars /\ tails = NoTails

\* the program state at the start of main, for given arguments
Start(fs, seq, base) ==
    /\ files = fs
    /\ sequential = seq
    /\ baseline = base
    /\ mainpc = "db_init"
    /\ idx = 1
    /\ file_stats = ZeroStats
    /\ total_stats = ZeroStats
    /\ sink = 0
    /\ queue = <<>>
    /\ sender_alive = TRUE
    /\ wpc = [w \in Workers |-> "unspawned"]
    /\ cur = [w \in Workers |-> 0]
    /\ wstats = [w \in Workers |-> ZeroStats]
    /\ done = [w \in Workers |-> 0]
    /\ appender = [w \in Workers |-> 0]
    /\ total_lines = 0
    /\ parsed_lines = 0
    /\ failed_lines = 0
    /\ files_processed = 0
    /\ position = 0
    /\ joined = [w \in Workers |-> "none"]
    /\ hist = [f \in 1..Len(fs) |-> NoHist]

Init ==
    /\ input_line = <<>>
    /\ parse_result = Pending
    /\ faults = 0
    /\ ScanIdle
    /\ UnitIdle
    /\ \E fs \in FileLists, seq \in BOOLEAN : Start(fs, seq, NoBaseline)

\* a sink operation may fail while the budget of failures lasts
MayFail == faults < MaxFaults

\* ----------------------------------------------------------------- main

\* main.rs 38-40: Database::init(..)?
DbInit ==
    /\ mainpc = "db_init"
    /\ \/ /\ mainpc' = IF sequential THEN "seq_loop" ELSE "par_send"
          /\ faults' = faults
       \/ /\ MayFail
          /\ faults' = faults + 1
          /\ mainpc' = "exit_err"
    /\ UNCHANGED <<parser_vars, unit_vars, scan_vars, args_vars, idx, file_stats, total_stats, sink, queue,
                   sender_alive, worker_vars, counter_vars, joined, hist>>

\* main.rs 56-58: the next file of the sequential loop, process_file(&db, file_path)?
SeqProcessFile ==
    /\ mainpc = "seq_loop"
    /\ idx <= Len(files)
    /\ \E batch_ok \in BOOLEAN, overflow_checks \in BOOLEAN :
          LET r == ProcessFileResults[files[idx]][batch_ok][overflow_checks]
              batch == ProcessFileResults[files[idx]][TRUE][overflow_checks].rows
          IN
          /\ batch_ok \/ (MayFail /\ batch > 0)
          /\ faults' = IF batch_ok THEN faults ELSE faults + 1
          \* a batch that failed leaves behind what its appender had taken
          /\ \E kept \in 0..batch :
                /\ batch_ok => kept = r.rows
                /\ sink' = sink + kept
          /\ file_stats' = r.stats
          /\ hist' = [hist EXCEPT ![idx].scans = @ + 1, ![idx].result = r.tag,
                                  ![idx].stats = r.stats]
          /\ mainpc' = CASE r.tag = "Ok" -> "seq_merge"
                         [] r.tag = "Err" -> "exit_err"
                         [] r.tag = "Panic" -> "exit_panic"
    /\ UNCHANGED <<parser_vars, unit_vars, scan_vars, args_vars, idx, total_stats, queue, sender_alive,
                   worker_vars, counter_vars, joined>>

\* main.rs 60-70: merge the file's statistics into the running total
SeqMerge ==
    /\ mainpc = "seq_merge"
    /\ total_stats' = AddStats(total_stats, file_stats)
    /\ idx' = idx + 1
    /\ mainpc' = "seq_loop"
    /\ UNCHANGED <<parser_vars, unit_vars, scan_vars, args_vars, faults, file_stats, sink, queue,
                   sender_alive, worker_vars, counter_vars, joined, hist>>

\* main.rs 72: the loop is over
SeqDone ==
    /\ mainpc = "seq_loop"
    /\ idx > Len(files)
    /\ mainpc' = "summary"
    /\ UNCHANGED <<parser_vars, unit_vars, scan_vars, args_vars, faults, idx, file_stats, total_stats, sink,
                   queue, sender_alive, worker_vars, counter_vars, joined, hist>>

\* main.rs 80-123: the summary, db.count_syscalls()
Summary ==
    /\ mainpc = "summary"
    /\ mainpc' = "exit_ok"
    /\ UNCHANGED <<parser_vars, unit_vars, scan_vars, args_vars, faults, idx, file_stats, total_stats, sink,
                   queue, sender_alive, worker_vars, counter_vars, joined, hist>>

\* parallel_processor.rs 24-26: sender.send(file)?
SendFile ==
    /\ mainpc = "par_send"
    /\ idx <= Len(files)
    /\ queue' = Append(queue, idx)
    /\ idx' = idx + 1
    /\ UNCHANGED <<parser_vars, unit_vars, scan_vars, args_vars, faults, mainpc, file_stats, total_stats,
                   sink, sender_alive, worker_vars, counter_vars, joined, hist>>

\* main going on to spawn the workers with the sender still alive
KeepSender ==
    /\ mainpc = "par_send"
    /\ idx > Len(files)
    /\ mainpc' = "par_spawn"
    /\ idx' = 0
    /\ UNCHANGED <<parser_vars, unit_vars, scan_vars, args_vars, faults, file_stats, total_stats, sink,
                   queue, sender_alive, worker_vars, counter_vars, joined, hist>>

\* main sealing the queue and going on to spawn the workers at any point of
\* the loading, the files not yet sent left out
DropSenderEarly ==
    /\ mainpc = "par_send"
    /\ sender_alive' = FALSE
    /\ mainpc' = "par_spawn"
    /\ idx' = 0
    /\ UNCHANGED <<parser_vars, unit_vars, scan_vars, args_vars, faults, file_stats, total_stats, sink,
                   queue, worker_vars, counter_vars, joined, hist>>

\* parallel_processor.rs 27: drop(sender)
DropSender ==
    /\ mainpc = "par_send"
    /\ idx > Len(files)
    /\ sender_alive' = FALSE
    /\ mainpc' = "par_spawn"
    /\ idx' = 0
    /\ UNCHANGED <<parser_vars, unit_vars, scan_vars, args_vars, faults, file_stats, total_stats, sink,
                   queue, worker_vars, counter_vars, joined, hist>>

\* parallel_processor.rs 55-132: thread::spawn of worker idx
Spawn ==
    /\ mainpc = "par_spawn"
    /\ idx < NumWorkers
    /\ wpc' = [wpc EXCEPT ![idx] = "clone"]
    /\ idx' = idx + 1
    /\ UNCHANGED <<parser_vars, unit_vars, scan_vars, args_vars, faults, mainpc, file_stats, total_stats,
                   sink, queue, sender_alive, cur, wstats, done, appender,
                   counter_vars, joined, hist>>

\* parallel_processor.rs 132-135: all workers spawned, on to the joins
SpawnDone ==
    /\ mainpc = "par_spawn"
    /\ idx = NumWorkers
    /\ mainpc' = "par_join"
    /\ idx' = 0
    /\ UNCHANGED <<parser_vars, unit_vars, scan_vars, args_vars, faults, file_stats, total_stats, sink,
                   queue, sender_alive, worker_vars, counter_vars, joined, hist>>

\* parallel_processor.rs 136-144: what the join of a finished worker reports
join_report(exit) ==
    CASE exit = "exit_ok" -> "ok"
      [] exit = "setup_err" -> "error"
      [] exit = "exit_err" -> "error"
      [] exit = "panicked" -> "panicked"

\* a join that returns only for a thread that ran to its end, never for one
\* that panicked
JoinCleanOnly ==
    /\ mainpc = "par_join"
    /\ idx < NumWorkers
    /\ wpc[idx] \in Exited \ {"panicked"}
    /\ joined' = [joined EXCEPT ![idx] = join_report(wpc[idx])]
    /\ idx' = idx + 1
    /\ UNCHANGED <<parser_vars, unit_vars, scan_vars, args_vars, faults, mainpc, file_stats, total_stats,
                   sink, queue, sender_alive, worker_vars, counter_vars, hist>>

\* parallel_processor.rs 135-145: handle.join() of worker idx, once it has ended
Join ==
    /\ mainpc = "par_join"
    /\ idx < NumWorkers
    /\ wpc[idx] \in Exited
    /\ joined' = [joined EXCEPT ![idx] = join_report(wpc[idx])]
    /\ idx' = idx + 1
    /\ UNCHANGED <<parser_vars, unit_vars, scan_vars, args_vars, faults, mainpc, file_stats, total_stats,
                   sink, queue, sender_alive, worker_vars, counter_vars, hist>>

\* parallel_processor.rs 147-156: finish the progress bar, load the counters
Return ==
    /\ mainpc = "par_join"
    /\ idx = NumWorkers
    /\ total_stats' = ProcessStats(total_lines, parsed_lines, failed_lines)
    /\ mainpc' = "summary"
    /\ UNCHANGED <<parser_vars, unit_vars, scan_vars, args_vars, faults, idx, file_stats, sink, queue,
                   sender_alive, worker_vars, counter_vars, joined, hist>>

\* -------------------------------------------------------------- workers

\* a plain store in place of the atomic add: an earlier worker's update is lost
plain_store(counter, n) == n

\* AtomicUsize::fetch_add: the counter's new value
fetch_add(counter, n) == counter + n

\* a receive that hands the message out and leaves it in the channel
channel_peek(q) == [item |-> Head(q), rest |-> q]

\* crossbeam Receiver::recv on a channel that holds a message: the message
\* leaves the channel
channel_recv(q) == [item |-> Head(q), rest |-> Tail(q)]

\* a worker whose thread returns on a file's Err instead of logging it
on_file_result_fatal(tag) ==
    CASE tag = "Ok" -> "add_total"
      [] tag = "Err" -> "exit_err"
      [] tag = "Panic" -> "panicked"

\* parallel_processor.rs 85-122: where the worker goes on the file's result
on_file_result(tag) ==
    CASE tag = "Ok" -> "add_total"
      [] tag = "Err" -> "recv"
      [] tag = "Panic" -> "panicked"

\* what becomes of the rows an appender holds when it is dropped without a
\* successful flush (Err return, panic): the sink decides, kept or lost
DropAppender(w, kept) ==
    /\ sink' = IF kept THEN sink + appender[w] ELSE sink
    /\ appender' = [appender EXCEPT ![w] = 0]

\* parallel_processor.rs 69-73: conn.try_clone()?
Clone(w) ==
    /\ wpc[w] = "clone"
    /\ \/ /\ wpc' = [wpc EXCEPT ![w] = "appender"]
          /\ faults' = faults
       \/ /\ MayFail
          /\ faults' = faults + 1
          /\ wpc' = [wpc EXCEPT ![w] = "setup_err"]
    /\ UNCHANGED <<parser_vars, unit_vars, scan_vars, args_vars, main_vars, sink, queue, sender_alive, cur,
                   wstats, done, appender, counter_vars, joined, hist>>

\* parallel_processor.rs 76: worker_conn.appender("syscalls")?
CreateAppender(w) ==
    /\ wpc[w] = "appender"
    /\ \/ /\ wpc' = [wpc EXCEPT ![w] = "recv"]
          /\ faults' = faults
       \/ /\ MayFail
          /\ faults' = faults + 1
          /\ wpc' = [wpc EXCEPT ![w] = "setup_err"]
    /\ UNCHANGED <<parser_vars, unit_vars, scan_vars, args_vars, main_vars, sink, queue, sender_alive, cur,
                   wstats, done, appender, counter_vars, joined, hist>>

\* parallel_processor.rs 79: receiver.recv() gives a file
Recv(w) ==
    /\ wpc[w] = "recv"
    /\ queue # <<>>
    /\ LET m == channel_recv(queue) IN
          /\ queue' = m.rest
          /\ cur' = [cur EXCEPT ![w] = m.item]
          /\ hist' = [hist EXCEPT ![m.item].claimed_by = Append(@, w)]
    /\ wpc' = [wpc EXCEPT ![w] = "scan"]
    /\ UNCHANGED <<parser_vars, unit_vars, scan_vars, args_vars, faults, main_vars, sink, sender_alive,
                   wstats, done, appender, counter_vars, joined>>

\* parallel_processor.rs 79: receiver.recv() gives Err, the channel being
\* empty and without a sender; the loop ends
RecvClosed(w) ==
    /\ wpc[w] = "recv"
    /\ queue = <<>>
    /\ ~sender_alive
    /\ wpc' = [wpc EXCEPT ![w] = "flush"]
    /\ UNCHANGED <<parser_vars, unit_vars, scan_vars, args_vars, faults, main_vars, sink, queue, sender_alive,
                   cur, wstats, done, appender, counter_vars, joined, hist>>

\* parallel_processor.rs 85-121: process_file_with_appender and the match on
\* its result; a panic unwinds the worker and drops its appender
Scan(w) ==
    /\ wpc[w] = "scan"
    /\ \E fail_at \in 0..Len(files[cur[w]].lines), overflow_checks \in BOOLEAN,
          kept \in BOOLEAN :
          LET r == WithAppenderResults[files[cur[w]]][fail_at][overflow_checks]
              failed == /\ fail_at > 0
                        /\ r # WithAppenderResults[files[cur[w]]][0][overflow_checks]
          IN  /\ fail_at = 0 \/ (MayFail /\ failed)
              /\ faults' = IF fail_at = 0 THEN faults ELSE faults + 1
              /\ wstats' = [wstats EXCEPT ![w] = r.stats]
              /\ hist' = [hist EXCEPT ![cur[w]].scans = @ + 1, ![cur[w]].result = r.tag,
                                      ![cur[w]].stats = r.stats]
              /\ wpc' = [wpc EXCEPT ![w] = on_file_result(r.tag)]
              /\ IF r.tag = "Panic"
                 THEN /\ kept \/ appender[w] + r.rows > 0
                      /\ sink' = IF kept THEN sink + appender[w] + r.rows ELSE sink
                      /\ appender' = [appender EXCEPT ![w] = 0]
                 ELSE /\ kept
                      /\ sink' = sink
                      /\ appender' = [appender EXCEPT ![w] = @ + r.rows]
    /\ UNCHANGED <<parser_vars, unit_vars, scan_vars, args_vars, main_vars, queue, sender_alive, cur, done,
                   counter_vars, joined>>

\* parallel_processor.rs 87-88: total.fetch_add(stats.total_lines, SeqCst)
AddTotal(w) ==
    /\ wpc[w] = "add_total"
    /\ total_lines' = fetch_add(total_lines, wstats[w].total_lines)
    /\ wpc' = [wpc EXCEPT ![w] = "add_parsed"]
    /\ UNCHANGED <<parser_vars, unit_vars, scan_vars, args_vars, faults, main_vars, sink, queue, sender_alive,
                   cur, wstats, done, appender, parsed_lines, failed_lines,
                   files_processed, position, joined, hist>>

\* parallel_processor.rs 89: parsed.fetch_add(stats.parsed_lines, SeqCst)
AddParsed(w) ==
    /\ wpc[w] = "add_parsed"
    /\ parsed_lines' = fetch_add(parsed_lines, wstats[w].parsed_lines)
    /\ wpc' = [wpc EXCEPT ![w] = "add_failed"]
    /\ UNCHANGED <<parser_vars, unit_vars, scan_vars, args_vars, faults, main_vars, sink, queue, sender_alive,
                   cur, wstats, done, appender, total_lines, failed_lines,
                   files_processed, position, joined, hist>>

\* a worker that goes on to the files counter without adding its file's
\* failed lines
SkipFailed(w) ==
    /\ wpc[w] = "add_failed"
    /\ wpc' = [wpc EXCEPT ![w] = "files_done"]
    /\ UNCHANGED <<parser_vars, unit_vars, scan_vars, args_vars, faults, main_vars, sink, queue, sender_alive,
                   cur, wstats, done, appender, total_lines, parsed_lines, failed_lines,
                   files_processed, position, joined, hist>>

\* parallel_processor.rs 90: failed.fetch_add(stats.failed_lines, SeqCst)
AddFailed(w) ==
    /\ wpc[w] = "add_failed"
    /\ failed_lines' = fetch_add(failed_lines, wstats[w].failed_lines)
    /\ wpc' = [wpc EXCEPT ![w] = "files_done"]
    /\ UNCHANGED <<parser_vars, unit_vars, scan_vars, args_vars, faults, main_vars, sink, queue, sender_alive,
                   cur, wstats, done, appender, total_lines, parsed_lines,
                   files_processed, position, joined, hist>>

\* parallel_processor.rs 97: done = files_done.fetch_add(1, SeqCst) + 1
FilesDone(w) ==
    /\ wpc[w] = "files_done"
    /\ files_processed' = fetch_add(files_processed, 1)
    /\ done' = [done EXCEPT ![w] = files_processed + 1]
    /\ wpc' = [wpc EXCEPT ![w] = "set_position"]
    /\ UNCHANGED <<parser_vars, unit_vars, scan_vars, args_vars, faults, main_vars, sink, queue, sender_alive,
                   cur, wstats, appender, total_lines, parsed_lines, failed_lines,
                   position, joined, hist>>

\* parallel_processor.rs 107-112: progress.set_position(done), back to recv
SetPosition(w) ==
    /\ wpc[w] = "set_position"
    /\ position' = done[w]
    /\ wpc' = [wpc EXCEPT ![w] = "recv"]
    /\ UNCHANGED <<parser_vars, unit_vars, scan_vars, args_vars, faults, main_vars, sink, queue, sender_alive,
                   cur, wstats, done, appender, total_lines, parsed_lines, failed_lines,
                   files_processed, joined, hist>>

\* parallel_processor.rs 126-128: appender.flush()?; Ok(())
Flush(w) ==
    /\ wpc[w] = "flush"
    /\ \/ /\ faults' = faults
          /\ DropAppender(w, TRUE)
          /\ wpc' = [wpc EXCEPT ![w] = "exit_ok"]
       \/ /\ MayFail
          /\ faults' = faults + 1
          /\ \E kept \in BOOLEAN : (kept \/ appender[w] > 0) /\ DropAppender(w, kept)
          /\ wpc' = [wpc EXCEPT ![w] = "exit_err"]
    /\ UNCHANGED <<parser_vars, unit_vars, scan_vars, args_vars, main_vars, queue, sender_alive, cur, wstats,
                   done, counter_vars, joined, hist>>

\* ------------------------------------------------------- specifications

Worker(w) ==
    \/ Clone(w)
    \/ CreateAppender(w)
    \/ Recv(w)
    \/ RecvClosed(w)
    \/ Scan(w)
    \/ AddTotal(w)
    \/ AddParsed(w)
    \/ AddFailed(w)
    \/ FilesDone(w)
    \/ SetPosition(w)
    \/ Flush(w)

Main ==
    \/ DbInit
    \/ SeqProcessFile
    \/ SeqMerge
    \/ SeqDone
    \/ Summary
    \/ SendFile
    \/ DropSender
    \/ Spawn
    \/ SpawnDone
    \/ Join
    \/ Return

Next == Main \/ \E w \in Workers : Worker(w)

Spec == Init /\ [][Next]_vars

\* the operating system runs every thread that can take a step
FairSpec == Spec /\ WF_vars(Main) /\ \A w \in Workers : WF_vars(Worker(w))

\* ---------------------------------------------------------- parser runs

\* parser.rs 219-224: one call of parse_line, in either build
ParseLine ==
    /\ parse_result = Pending
    /\ \E overflow_checks \in BOOLEAN :
          parse_result' = parse_line(input_line, overflow_checks)
    /\ UNCHANGED <<input_line, unit_vars, scan_vars, args_vars, faults, main_vars, sink, queue,
                   sender_alive, worker_vars, counter_vars, joined, hist>>

InitParse ==
    /\ input_line \in InputLines
    /\ parse_result = Pending
    /\ faults = 0
    /\ ScanIdle
    /\ UnitIdle
    /\ Start(<<>>, TRUE, NoBaseline)

NextParse == ParseLine

SpecParse == InitParse /\ [][NextParse]_vars

\* ------------------------------------- both drivers on the same files

\* the program is run again on the same files without --sequential, on a
\* fresh database; the sequential run's outcome is kept for comparison
RunParallel ==
    /\ sequential
    /\ mainpc \in MainExited
    /\ baseline = NoBaseline
    /\ baseline' = [exit |-> mainpc, stats |-> total_stats, rows |-> sink]
    /\ sequential' = FALSE
    /\ mainpc' = "db_init"
    /\ idx' = 1
    /\ file_stats' = ZeroStats
    /\ total_stats' = ZeroStats
    /\ sink' = 0
    /\ hist' = [f \in 1..Len(files) |-> NoHist]
    /\ UNCHANGED <<parser_vars, unit_vars, scan_vars, files, faults, queue, sender_alive, worker_vars,
                   counter_vars, joined>>

\* both runs without sink failures
InitBoth ==
    /\ input_line = <<>>
    /\ parse_result = Pending
    /\ faults = MaxFaults
    /\ ScanIdle
    /\ UnitIdle
    /\ \E fs \in FileLists : Start(fs, TRUE, NoBaseline)

NextBoth == Next \/ RunParallel

SpecBoth == InitBoth /\ [][NextBoth]_vars

\* ------------------------------------------ a scan, one line at a time

\* the longest file of the scanner runs and of the split runs, in lines
MaxLines == 3

\* what reading one line of such a file gives
LineResults == {ReadOk(LineOk), ReadOk(LineBad), ReadOk(LineReversed), ReadErr}

ScanFiles == UNION {[1..n -> LineResults] : n \in 0..MaxLines}

\* one turn of the `for line_result in reader.lines()` loop, in either
\* scanner: process_file pushes the event, process_file_with_appender
\* hands it to append_row, which may fail
ScanLine ==
    /\ scanner.st.tag = "Run"
    /\ scanner.n < Len(scanner.lines)
    /\ \E overflow_checks \in BOOLEAN, append_ok \in BOOLEAN :
          LET line_result == scanner.lines[scanner.n + 1]
              next == IF scanner.with_appender
                      THEN scan_line_with_appender(scanner.st, line_result, append_ok,
                                                   overflow_checks)
                      ELSE scan_line(scanner.st, line_result, overflow_checks)
          IN  /\ append_ok \/ (scanner.with_appender /\ MayFail /\ next.tag = "Err"
                               /\ line_result.io = "Ok")
              /\ faults' = IF append_ok THEN faults ELSE faults + 1
              /\ scanner' = [scanner EXCEPT !.n = @ + 1, !.st = next]
    /\ UNCHANGED <<parser_vars, unit_vars, split, args_vars, main_vars, sink, queue, sender_alive,
                   worker_vars, counter_vars, joined, hist>>

\* the lines are exhausted: process_file hands a non-empty batch to
\* append_batch, which may fail, and both return Ok(stats)
ScanEnd ==
    /\ scanner.st.tag = "Run"
    /\ scanner.n = Len(scanner.lines)
    /\ \E batch_ok \in BOOLEAN :
          /\ batch_ok \/ (~scanner.with_appender /\ MayFail /\ scanner.st.rows > 0)
          /\ faults' = IF batch_ok THEN faults ELSE faults + 1
          /\ scanner' = [scanner EXCEPT !.st.tag = IF batch_ok THEN "Ok" ELSE "Err"]
    /\ UNCHANGED <<parser_vars, unit_vars, split, args_vars, main_vars, sink, queue, sender_alive,
                   worker_vars, counter_vars, joined, hist>>

\* a scan of an opened file, by either scanner
InitScan ==
    /\ input_line = <<>>
    /\ parse_result = Pending
    /\ faults = 0
    /\ \E lines \in ScanFiles, with_appender \in BOOLEAN :
          scanner = [lines |-> lines, with_appender |-> with_appender, n |-> 0,
                     st |-> ScanStart]
    /\ split = NoSplit
    /\ UnitIdle
    /\ Start(<<>>, TRUE, NoBaseline)

NextScan == ScanLine \/ ScanEnd

SpecScan == InitScan /\ [][NextScan]_vars

\* ------------------------------------ a file's lines split in two files

RECURSIVE Part(_, _, _, _)
\* of the first n lines, those the split puts into the first file (in_first)
\* or the second, in their order
Part(lines, mask, in_first, n) ==
    IF n = 0 THEN <<>>
    ELSE IF mask[n] = in_first
         THEN Append(Part(lines, mask, in_first, n - 1), lines[n])
         ELSE Part(lines, mask, in_first, n - 1)

SplitFrame ==
    UNCHANGED <<parser_vars, unit_vars, scanner, args_vars, main_vars, sink, queue, sender_alive,
                worker_vars, counter_vars, joined, hist>>

\* process_file on a file of the given lines, its result kept under `which`;
\* a failed append_batch is a sink failure
ScanPart(lines, which) ==
    /\ split[which] = Pending
    /\ \E batch_ok \in BOOLEAN :
          LET result == process_file(TraceFile(TRUE, lines), batch_ok, split.overflow_checks)
          IN  /\ batch_ok \/ (MayFail /\ result.tag = "Err"
                              /\ \A i \in 1..Len(lines) : lines[i].io = "Ok")
              /\ faults' = IF batch_ok THEN faults ELSE faults + 1
              /\ split' = [split EXCEPT ![which] = result]
    /\ SplitFrame

\* the file that holds all the lines
ScanWhole == ScanPart(split.lines, "whole")
\* the two files the lines are split into
ScanFirst == ScanPart(Part(split.lines, split.mask, TRUE, Len(split.lines)), "first")
ScanSecond == ScanPart(Part(split.lines, split.mask, FALSE, Len(split.lines)), "second")

\* some lines, a split of them in two, and the build that scans all three
InitSplit ==
    /\ input_line = <<>>
    /\ parse_result = Pending
    /\ faults = 0
    /\ scanner = NoScanner
    /\ \E lines \in ScanFiles, overflow_checks \in BOOLEAN :
          \E mask \in [1..Len(lines) -> BOOLEAN] :
             split = [lines |-> lines, mask |-> mask, overflow_checks |-> overflow_checks,
                      whole |-> Pending, first |-> Pending, second |-> Pending]
    /\ UnitIdle
    /\ Start(<<>>, TRUE, NoBaseline)

NextSplit == ScanWhole \/ ScanFirst \/ ScanSecond

SpecSplit == InitSplit /\ [][NextSplit]_vars

\* ------------------------------------------------ the pid of a file name

\* what stands before the suffix of a file name
NameStems ==
    { <<"t", "r", "a", "c", "e">>,
      <<"n", "o", "t", "r", "a", "c", "e">>,
      <<"z", "o", "o", "m", "-", "t", "r", "a", "c", "e", "-", "2", "0", "2", "5", "1", "1", "1", "0", "-", "2", "2", "2", "1", "1", "0">>,
      <<"a", ".", "b">>,
      <<"t", ".", "7">>,
      <<>> }

\* what ends a file name: decimal numbers, signed ones, ones at the edges of
\* the i32 range, and text that is no number
NameSuffixes ==
    { <<"1", "2", "3", "4", "5">>,
      <<"1", "3", "8", "7", "6", "7", "9">>,
      <<"t", "x", "t">>,
      <<>>,
      <<"0">>,
      <<"0", "0", "7">>,
      <<"+", "5">>,
      <<"-", "5">>,
      <<"2", "1", "4", "7", "4", "8", "3", "6", "4", "7">>,
      <<"2", "1", "4", "7", "4", "8", "3", "6", "4", "8">>,
      <<"-", "2", "1", "4", "7", "4", "8", "3", "6", "4", "8">>,
      <<"-", "2", "1", "4", "7", "4", "8", "3", "6", "4", "9">>,
      <<"4", "x">>,
      <<"+">>,
      <<"-">> }

\* the file names: a stem, then a suffix, with or without a '.' between
FileNames ==
    {stem \o sep \o suffix : stem \in NameStems, sep \in {<<>>, <<".">>}, suffix \in NameSuffixes}

\* processor.rs 100-105: the pid of the file's name, and the pid its rows get
ExtractPid ==
    /\ pid = Pending
    /\ pid' = [tag |-> "Done", found |-> extract_pid(file_name),
               stored |-> stored_pid(file_name)]
    /\ UNCHANGED <<parser_vars, file_name, grammars, tails, scan_vars, args_vars, faults,
                   main_vars, sink, queue, sender_alive, worker_vars, counter_vars, joined,
                   hist>>

InitPid ==
    /\ input_line = <<>>
    /\ parse_result = Pending
    /\ faults = 0
    /\ ScanIdle
    /\ file_name \in FileNames
    /\ pid = Pending
    /\ grammars = NoGrammars
    /\ tails = NoTails
    /\ Start(<<>>, TRUE, NoBaseline)

NextPid == ExtractPid

SpecPid == InitPid /\ [][NextPid]_vars

\* ----------------------------------- the tail of a resumed line

\* the longest tail of the tail runs, in tokens
MaxTailTokens == 3

\* the pieces the tails are put together from
TailTokens ==
    { <<"a">>,
      <<")">>,
      <<" ">>,
      <<"0">>,
      <<"=", " ", "0">>,
      <<" ", "=", " ">>,
      <<")", " ", "=", " ", "0">>,
      <<" ", "<", "0", ".", "5", ">">> }

\* what follows the resumed marker, or the opening parenthesis: token tails
\* and the tails of well-formed lines
Tails ==
    {Concat(ts) : ts \in UNION {[1..n -> TailTokens] : n \in 0..MaxTailTokens}}
    \cup {args \o <<")", " ", "=", " ">> \o region \o DurationBlock(dur) :
             args \in PlainArgs, region \in ReturnRegions, dur \in Durations}

\* TS <... NAME resumed>TAIL
ResumedOf(tail) == <<"T", " ">> \o ResumedOpen \o <<"f">> \o ResumedClose \o tail
\* TS NAME(TAIL
RegularOf(tail) == <<"T", " ", "f", "(">> \o tail

TailFrame ==
    UNCHANGED <<parser_vars, file_name, pid, grammars, scan_vars, args_vars, faults, main_vars,
                sink, queue, sender_alive, worker_vars, counter_vars, joined, hist>>

\* parse_resumed on the resumed line of the tail
TailResumed ==
    /\ tails.resumed = Pending
    /\ tails' = [tails EXCEPT !.resumed = parse_resumed(ResumedOf(tails.tail),
                                                        tails.overflow_checks)]
    /\ TailFrame

\* parse_regular on the regular line of the tail
TailRegular ==
    /\ tails.regular = Pending
    /\ tails' = [tails EXCEPT !.regular = parse_regular(RegularOf(tails.tail),
                                                        tails.overflow_checks)]
    /\ TailFrame

InitTail ==
    /\ input_line = <<>>
    /\ parse_result = Pending
    /\ faults = 0
    /\ ScanIdle
    /\ file_name = <<>>
    /\ pid = Pending
    /\ grammars = NoGrammars
    /\ \E tail \in Tails, overflow_checks \in BOOLEAN :
          tails = [tail |-> tail, overflow_checks |-> overflow_checks,
                   resumed |-> Pending, regular |-> Pending]
    /\ Start(<<>>, TRUE, NoBaseline)

NextTail == TailResumed \/ TailRegular

SpecTail == InitTail /\ [][NextTail]_vars

\* ------------------------------------ the three grammars on one line

\* a line of the unfinished grammar as the tracer writes it (parser.rs 324)
UnfinishedFull == <<"T", " ", "f", "(", "a", " ", "<", "u", "n", "f", "i", "n", "i", "s", "h", "e", "d", " ", ".", ".", ".", ">", ")", " ", "=", " ", "?">>
\* a resumed line whose tail holds an opening parenthesis
ResumedWithParen == <<"T", " ", "<", ".", ".", ".", " ", "f", " ", "r", "e", "s", "u", "m", "e", "d", ">", "(", "a", ")", " ", "=", " ", "0">>
\* an unfinished line that also holds a resumed marker
UnfinishedAndResumed == <<"T", " ", "<", ".", ".", ".", " ", "f", " ", "r", "e", "s", "u", "m", "e", "d", ">", "g", "(", "a", ")", " ", "=", " ", "0", " ", "<", "u", "n", "f", "i", "n", "i", "s", "h", "e", "d", " ", ".", ".", ".", ">">>
\* a regular line whose arguments hold the resumed markers in reverse order
RegularWithMarkers == <<"T", " ", "f", "(", " ", "r", "e", "s", "u", "m", "e", "d", ">", "<", ".", ".", ".", " ", ")", " ", "=", " ", "0">>
\* lines that more than one grammar has something to say about
DispatchLines == {UnfinishedFull, ResumedWithParen, UnfinishedAndResumed, RegularWithMarkers}

\* the lines of the grammar runs
GrammarLines ==
    {Concat(ts) : ts \in UNION {[1..n -> Tokens] : n \in 0..(MaxTokens - 1)}}
    \cup FormatLines \cup DispatchLines

GrammarFrame ==
    UNCHANGED <<input_line, file_name, pid, tails, scan_vars, args_vars, faults, main_vars,
                sink, queue, sender_alive, worker_vars, counter_vars, joined, hist>>

\* parser.rs 221: parse_unfinished(line)
GrammarUnfinished ==
    /\ grammars.unfinished = Pending
    /\ grammars' = [grammars EXCEPT !.unfinished = parse_unfinished(input_line)]
    /\ UNCHANGED parse_result
    /\ GrammarFrame

\* parser.rs 222: parse_resumed(line)
GrammarResumed ==
    /\ grammars.unfinished # Pending
    /\ grammars.resumed = Pending
    /\ grammars' = [grammars EXCEPT !.resumed = parse_resumed(input_line,
                                                              grammars.overflow_checks)]
    /\ UNCHANGED parse_result
    /\ GrammarFrame

\* parser.rs 223: parse_regular(line)
GrammarRegular ==
    /\ grammars.resumed # Pending
    /\ grammars.regular = Pending
    /\ grammars' = [grammars EXCEPT !.regular = parse_regular(input_line,
                                                              grammars.overflow_checks)]
    /\ UNCHANGED parse_result
    /\ GrammarFrame

\* parser.rs 219-224: parse_line(line), in the same build
GrammarLine ==
    /\ grammars.regular # Pending
    /\ parse_result = Pending
    /\ parse_result' = parse_line(input_line, grammars.overflow_checks)
    /\ UNCHANGED grammars
    /\ GrammarFrame

InitGrammars ==
    /\ input_line \in GrammarLines
    /\ parse_result = Pending
    /\ faults = 0
    /\ ScanIdle
    /\ file_name = <<>>
    /\ pid = Pending
    /\ \E overflow_checks \in BOOLEAN :
          grammars = [NoGrammars EXCEPT !.overflow_checks = overflow_checks]
    /\ tails = NoTails
    /\ Start(<<>>, TRUE, NoBaseline)

NextGrammars == GrammarUnfinished \/ GrammarResumed \/ GrammarRegular \/ GrammarLine

SpecGrammars == InitGrammars /\ [][NextGrammars]_vars

\* ------------------------------- the sequential driver, step by step

SeqFrame ==
    UNCHANGED <<parser_vars, unit_vars, split, args_vars, idx, total_stats, queue,
                sender_alive, worker_vars, counter_vars, joined>>

\* main.rs 56-58, processor.rs 33-56: the next file of the loop is handed to
\* process_file, which opens it; an Err returns from main
SeqOpen ==
    /\ mainpc = "seq_loop"
    /\ idx <= Len(files)
    /\ IF files[idx].openable
       THEN /\ scanner' = [lines |-> files[idx].lines, with_appender |-> FALSE, n |-> 0,
                           st |-> ScanStart]
            /\ hist' = [hist EXCEPT ![idx].scans = @ + 1]
            /\ mainpc' = "seq_read"
       ELSE /\ scanner' = scanner
            /\ hist' = [hist EXCEPT ![idx].scans = @ + 1, ![idx].result = "Err"]
            /\ mainpc' = "exit_err"
    /\ UNCHANGED <<faults, file_stats, sink>>
    /\ SeqFrame

\* a loop body that hands every parsed line's row to the sink at once
SeqReadLineAppending ==
    /\ mainpc = "seq_read"
    /\ scanner.n < Len(scanner.lines)
    /\ \E overflow_checks \in BOOLEAN :
          LET next == scan_line(scanner.st, scanner.lines[scanner.n + 1], overflow_checks)
          IN  /\ scanner' = [scanner EXCEPT !.n = @ + 1, !.st = next]
              /\ sink' = sink + (next.rows - scanner.st.rows)
              /\ hist' = IF next.tag = "Run" THEN hist
                         ELSE [hist EXCEPT ![idx].result = next.tag]
              /\ mainpc' = CASE next.tag = "Run" -> "seq_read"
                             [] next.tag = "Err" -> "exit_err"
                             [] next.tag = "Panic" -> "exit_panic"
    /\ UNCHANGED <<faults, file_stats>>
    /\ SeqFrame

\* processor.rs 58-73: one turn of process_file's loop; the event of a parsed
\* line is pushed to `syscalls`, a read error returns Err through main, a
\* panic ends the process
SeqReadLine ==
    /\ mainpc = "seq_read"
    /\ scanner.n < Len(scanner.lines)
    /\ \E overflow_checks \in BOOLEAN :
          LET next == scan_line(scanner.st, scanner.lines[scanner.n + 1], overflow_checks)
          IN  /\ scanner' = [scanner EXCEPT !.n = @ + 1, !.st = next]
              /\ hist' = IF next.tag = "Run" THEN hist
                         ELSE [hist EXCEPT ![idx].result = next.tag]
              /\ mainpc' = CASE next.tag = "Run" -> "seq_read"
                             [] next.tag = "Err" -> "exit_err"
                             [] next.tag = "Panic" -> "exit_panic"
    /\ UNCHANGED <<faults, file_stats, sink>>
    /\ SeqFrame

\* processor.rs 75-85: the lines are exhausted; a non-empty `syscalls` goes to
\* append_batch, whose failure returns Err through main and leaves behind
\* what its appender had taken; then Ok(stats)
SeqAppendBatch ==
    /\ mainpc = "seq_read"
    /\ scanner.n = Len(scanner.lines)
    /\ \E batch_ok \in BOOLEAN :
          /\ batch_ok \/ (MayFail /\ scanner.st.rows > 0)
          /\ faults' = IF batch_ok THEN faults ELSE faults + 1
          /\ \E kept \in 0..scanner.st.rows :
                /\ batch_ok => kept = scanner.st.rows
                /\ sink' = sink + kept
          /\ scanner' = [scanner EXCEPT !.st.tag = IF batch_ok THEN "Ok" ELSE "Err"]
          /\ file_stats' = IF batch_ok THEN scanner.st.stats ELSE file_stats
          /\ hist' = [hist EXCEPT ![idx].result = IF batch_ok THEN "Ok" ELSE "Err",
                                  ![idx].stats = IF batch_ok THEN scanner.st.stats ELSE @]
          /\ mainpc' = IF batch_ok THEN "seq_merge" ELSE "exit_err"
    /\ SeqFrame

\* the program run with --sequential
InitSeq ==
    /\ input_line = <<>>
    /\ parse_result = Pending
    /\ faults = 0
    /\ ScanIdle
    /\ UnitIdle
    /\ \E fs \in FileLists : Start(fs, TRUE, NoBaseline)

NextSeq ==
    \/ DbInit
    \/ SeqOpen
    \/ SeqReadLine
    \/ SeqAppendBatch
    \/ SeqMerge
    \/ SeqDone
    \/ Summary

SpecSeq == InitSeq /\ [][NextSeq]_vars

\* --------------------------------------------------------------- claims

Files == 1..Len(files)

\* process_files_parallel has returned to main
Returned == ~sequential /\ mainpc \in {"summary", "exit_ok"}

\* the file cannot be opened, or reading one of its lines fails
Unreadable(file) ==
    \/ ~file.openable
    \/ \E i \in 1..Len(file.lines) : file.lines[i] = ReadErr

\* field-wise sum of the statistics of the first n files whose scan gave Ok
RECURSIVE SumOkStats(_)
SumOkStats(n) ==
    IF n = 0 THEN ZeroStats
    ELSE AddStats(SumOkStats(n - 1),
                  IF hist[n].result = "Ok" THEN hist[n].stats ELSE ZeroStats)

\* C1: parse_line gives Some(event) or None for every line and never panics,
\* whatever the order of the markers in the line.
C1_NeverHardFails == parse_result.tag \in {"Pending", "Some", "None"}

\* C2: in the parallel pipeline every file is received from the channel by
\* at most one worker and scanned at most once, and a file that was received
\* (its scan failed or not) is never in the channel again.
C2_ClaimedAtMostOnce ==
    ~sequential =>
        \A f \in Files :
            /\ Len(hist[f].claimed_by) <= 1
            /\ hist[f].scans <= 1
            /\ hist[f].scans <= Len(hist[f].claimed_by)
            /\ Len(hist[f].claimed_by) + Cardinality({i \in 1..Len(queue) : queue[i] = f}) <= 1

\* a run has ended in which a file's scan failed, the worker that
\* had it went on to a second file, and both were scanned once
C2_Witness ==
    /\ Returned
    /\ mainpc = "exit_ok"
    /\ queue = <<>>
    /\ \E f, g \in Files :
          /\ f # g
          /\ hist[f].result = "Err"
          /\ hist[f].scans = 1
          /\ hist[g].scans = 1
          /\ hist[g].claimed_by = hist[f].claimed_by

\* C3: once process_files_parallel has returned, the counts it returned are
\* the field-wise sum of the statistics of the files whose scan gave Ok; a
\* file whose scan gave Err adds nothing.
C3_CountsAreSum == Returned => total_stats = SumOkStats(Len(files))

\* two workers have each added the statistics of a file, and the pipeline
\* has returned a total that is not zero
C3_Witness ==
    /\ Returned
    /\ total_stats.total_lines > 0
    /\ \E f, g \in Files :
          /\ hist[f].result = "Ok"
          /\ hist[g].result = "Ok"
          /\ hist[f].claimed_by # hist[g].claimed_by

\* C4: a sequential run and a parallel run over the same files end with the
\* same total/parsed/failed counts and the same number of rows in the sink.
C4_SameCountsAndRows ==
    (baseline # NoBaseline /\ mainpc \in MainExited) =>
        /\ total_stats = baseline.stats
        /\ sink = baseline.rows

\* C5: when a worker's scan of a file gives Err, that worker goes back to
\* receive its next file, and the step changes the position of no other worker.
C5_FileFailureCaught ==
    [][\A w \in Workers :
          (wpc[w] = "scan" /\ wpc'[w] # "scan" /\ hist'[cur[w]].result = "Err") =>
              /\ wpc'[w] = "recv"
              /\ \A v \in Workers \ {w} : wpc'[v] = wpc[v]]_vars

\* a worker has received a second file after the scan of its first gave
\* Err, while the other worker is still running
C5_Witness ==
    \E w \in Workers, f, g \in Files :
        /\ f < g
        /\ hist[f].result = "Err"
        /\ hist[f].claimed_by = <<w>>
        /\ hist[g].claimed_by = <<w>>
        /\ wpc[w] = "scan"
        /\ cur[w] = g
        /\ \E v \in Workers \ {w} : wpc[v] \notin Exited \cup {"unspawned"}

C7_SequentialContinues ==
    (/\ sequential
     /\ mainpc \in MainExited
     /\ \E f \in Files : hist[f].result = "Err" /\ Unreadable(files[f])) =>
        /\ \A g \in Files : hist[g].scans = 1
        /\ total_stats = SumOkStats(Len(files))

\* C8: when a worker could not obtain its connection or its appender, the
\* pipeline does not return to main as a success, and no file is received
\* from the channel.
C8_SetupFailureIsFatal ==
    (\E w \in Workers : wpc[w] = "setup_err") =>
        /\ ~Returned
        /\ \A f \in Files : hist[f].claimed_by = <<>>

\* C9: once process_files_parallel has returned, the channel is empty and
\* every file of the list has been received by a worker and its scan begun.
C9_AllFilesAttempted ==
    Returned =>
        /\ queue = <<>>
        /\ \A f \in Files : Len(hist[f].claimed_by) = 1 /\ hist[f].scans = 1

\* C10: a worker waiting for a file either receives one and scans it or, the
\* channel being closed and empty, leaves the loop; after a scan it is back
\* waiting (directly on Err, through the counter updates on Ok) unless it
\* panicked; every spawned worker ends; and the pipeline loads the counters
\* only when every worker has ended and been joined.
C10_WorkerLifeCycle ==
    /\ [][\A w \in Workers :
            /\ (wpc[w] = "recv" /\ wpc'[w] # "recv") =>
                  \/ wpc'[w] = "scan" /\ queue # <<>> /\ queue' = Tail(queue)
                  \/ wpc'[w] = "flush" /\ queue = <<>> /\ ~sender_alive
            /\ (wpc[w] = "scan" /\ wpc'[w] # "scan") =>
                  wpc'[w] \in {"add_total", "recv", "panicked"}
            /\ (wpc[w] = "add_total" /\ wpc'[w] # "add_total") => wpc'[w] = "add_parsed"
            /\ (wpc[w] = "add_parsed" /\ wpc'[w] # "add_parsed") => wpc'[w] = "add_failed"
            /\ (wpc[w] = "add_failed" /\ wpc'[w] # "add_failed") => wpc'[w] = "files_done"
            /\ (wpc[w] = "files_done" /\ wpc'[w] # "files_done") => wpc'[w] = "set_position"
            /\ (wpc[w] = "set_position" /\ wpc'[w] # "set_position") => wpc'[w] = "recv"]_vars
    /\ \A w \in Workers : (wpc[w] # "unspawned") ~> (wpc[w] \in Exited)
    /\ [][(~sequential /\ total_stats' # total_stats) =>
            \A w \in Workers : wpc[w] \in Exited /\ joined[w] # "none"]_vars
    /\ [](Returned => \A w \in Workers : wpc[w] \in Exited /\ joined[w] # "none")

\* a worker has gone round the loop twice, found the channel closed and
\* empty and ended, and main has its statistics after joining every worker
C10_Witness ==
    /\ Returned
    /\ total_stats # ZeroStats
    /\ \A w \in Workers : joined[w] # "none"
    /\ \E w \in Workers, f, g \in Files :
          /\ f # g
          /\ wpc[w] = "exit_ok"
          /\ hist[f].claimed_by = <<w>>
          /\ hist[g].claimed_by = <<w>>
          /\ hist[f].result = "Ok"
          /\ hist[g].result = "Ok"

\* parse_line has produced an Event
Produced == parse_result.tag = "Some"

\* the text strictly between the first occurrence of open and the first
\* occurrence of close after it; the caller has checked that both are there
Between(line, open, close) ==
    Let(Find(line, open) + Len(open), LAMBDA from :
        Slice(line, from, from + Find(SliceFrom(line, from), close)))

\* open occurs in line, and close after it
HasBetween(line, open, close) ==
    /\ Find(line, open) >= 0
    /\ Find(SliceFrom(line, Find(line, open) + Len(open)), close) >= 0

\* C11: an Event produced from a line that contains "<unfinished ...>" has no
\* return value and no duration, is marked unfinished, and its arguments are
\* the trimmed text between the first "(" and the marker.
C11_UnfinishedEvent ==
    (Produced /\ Contains(input_line, UnfinishedMarker)) =>
        /\ parse_result.v.return_value = None
        /\ parse_result.v.duration = None
        /\ parse_result.v.unfinished
        /\ HasBetween(input_line, <<"(">>, UnfinishedMarker)
        /\ parse_result.v.args = Trim(Between(input_line, <<"(">>, UnfinishedMarker))

\* C12: an Event produced from a line that contains "resumed>" is marked
\* resumed, and its call name is the text between "<... " and " resumed>".
C12_ResumedEvent ==
    (Produced /\ Contains(input_line, ResumedMarker)) =>
        /\ parse_result.v.resumed
        /\ HasBetween(input_line, ResumedOpen, ResumedClose)
        /\ parse_result.v.syscall = Between(input_line, ResumedOpen, ResumedClose)

\* the Event came from the regular grammar: the two parsers tried before it
\* gave None
FromRegular ==
    /\ Produced
    /\ parse_unfinished(input_line).tag = "None"
    /\ \E overflow_checks \in BOOLEAN :
          parse_resumed(input_line, overflow_checks).tag = "None"

\* C13: no Event has unfinished and resumed both true; an Event of the
\* regular grammar has both false; an Event with unfinished true has no
\* return value, no error code, no error message and no duration.
C13_FlagsExclusive ==
    Produced =>
        /\ ~(parse_result.v.unfinished /\ parse_result.v.resumed)
        /\ FromRegular => (~parse_result.v.unfinished /\ ~parse_result.v.resumed)
        /\ parse_result.v.unfinished =>
              /\ parse_result.v.return_value = None
              /\ parse_result.v.error_code = None
              /\ parse_result.v.error_message = None
              /\ parse_result.v.duration = None

\* an unfinished Event with arguments has been produced from a well-formed
\* unfinished line
C13_Witness ==
    /\ Produced
    /\ parse_result.v.unfinished
    /\ \E ts \in Timestamps, name \in CallNames, args \in ArgTexts :
          /\ input_line = UnfinishedLine(ts, name, args)
          /\ args # <<>>

\* the i64 a decimal literal denotes (the literal within the i64 range)
Value(neg, decimal) ==
    I64(neg, StripZeros([i \in 1..Len(decimal) |-> DigitVal(decimal[Len(decimal) + 1 - i])]))

\* parse_line has returned
Parsed == parse_result.tag # "Pending"

\* the line is a well-formed regular or resumed line with this return region
HasRegion(region) ==
    \E ts \in Timestamps, name \in CallNames, args \in PlainArgs, dur \in Durations :
        \/ input_line = RegularLine(ts, name, args, region, dur)
        \/ input_line = ResumedLine(ts, name, args, region, dur)

\* C14 (as amended): the return token 0x55edad95f000 parses to
\* 94479307894784, and the return token -0x10 parses to -16.
C14_HexValues ==
    /\ (Parsed /\ HasRegion(Hex55)) =>
          /\ Produced
          /\ parse_result.v.return_value =
                Some(Value(FALSE, <<"9", "4", "4", "7", "9", "3", "0", "7", "8", "9", "4", "7", "8", "4">>))
    /\ (Parsed /\ HasRegion(HexMinus10)) =>
          /\ Produced
          /\ parse_result.v.return_value = Some(Value(TRUE, <<"1", "6">>))

\* C14 (as stated): the return token 0x55edad95f000 parses to 5694004871168,
\* and the return token -0x10 parses to -16.
C14_HexValuesAsStated ==
    /\ (Parsed /\ HasRegion(Hex55)) =>
          /\ Produced
          /\ parse_result.v.return_value =
                Some(Value(FALSE, <<"5", "6", "9", "4", "0", "0", "4", "8", "7", "1", "1", "6", "8">>))
    /\ (Parsed /\ HasRegion(HexMinus10)) =>
          /\ Produced
          /\ parse_result.v.return_value = Some(Value(TRUE, <<"1", "6">>))

\* a line whose return token is 0x55edad95f000 has been parsed to an Event
\* with a positive return value
C14_Witness ==
    /\ Produced
    /\ HasRegion(Hex55)
    /\ parse_result.v.return_value.tag = "Some"
    /\ ~parse_result.v.return_value.v.neg
    /\ Len(parse_result.v.return_value.v.mag) = 14

Seconds(dur) ==
    CASE dur = DurationHalf -> [kind |-> "num", neg |-> FALSE, mag |-> <<5>>, exp |-> -1]
      [] dur = DurationMicro -> [kind |-> "num", neg |-> FALSE, mag |-> <<4>>, exp |-> -6]

\* the decimal tokens an i64 can hold
DecimalTokensInRange == DecimalTokens \ {I64MaxPlus1Text}

\* every complete-format line TS NAME(ARGS) = N <D> with N drawn from the
\* tokens has been parsed to the Event with exactly these fields
CompleteLinesParseExactly(tokens) ==
    \A ts \in Timestamps, name \in CallNames, args \in PlainArgs, n \in tokens,
       dur \in Durations \ {<<>>} :
        (Parsed /\ input_line = RegularLine(ts, name, args, n, dur)) =>
            parse_result = Some(Syscall(ts, name, args, Some(Value(FALSE, n)), None, None,
                                        Some(Seconds(dur)), FALSE, FALSE))

NoMarkers(line) ==
    /\ ~Contains(line, <<"(">>)
    /\ ~Contains(line, UnfinishedMarker)
    /\ ~(Contains(line, ResumedMarker) /\ Contains(line, <<"=", " ">>))

\* C17: for a line with none of the required markers parse_line returns
\* None.
C17_NoMarkersNoEvent == (Parsed /\ NoMarkers(input_line)) => parse_result = None

\* the part of C17 the code keeps: such a line never gives an Event
C17_NoMarkersNotSome == (Parsed /\ NoMarkers(input_line)) => ~Produced

\* C18: a regular line whose argument list holds balanced nested parentheses,
\* TS NAME(a(b), c) = REGION <D>, parses to an Event whose arguments are the
\* text between the outer parentheses, "a(b), c".
C18_NestedParentheses ==
    \A ts \in Timestamps, name \in CallNames, region \in ReturnRegions, dur \in Durations :
        (Parsed /\ input_line = RegularLine(ts, name, NestedArgs, region, dur)) =>
            /\ Produced
            /\ parse_result.v.args = NestedArgs

\* the counts the scan holds, while it runs and when it has returned Ok
Counting == scanner.st.tag \in {"Run", "Ok"}

\* the step read a line of text (reader.lines() gave Ok)
ReadLine ==
    /\ scanner.st.tag = "Run"
    /\ scanner'.n = scanner.n + 1
    /\ scanner.lines[scanner.n + 1].io = "Ok"

\* the parser rejects the text in both builds
Rejected(text) == \A overflow_checks \in BOOLEAN : parse_line(text, overflow_checks).tag = "None"

\* the step added one to total and to exactly one of parsed and failed
CountedOnce ==
    /\ scanner'.st.stats.total_lines = scanner.st.stats.total_lines + 1
    /\ \/ /\ scanner'.st.stats.parsed_lines = scanner.st.stats.parsed_lines + 1
          /\ scanner'.st.stats.failed_lines = scanner.st.stats.failed_lines
       \/ /\ scanner'.st.stats.parsed_lines = scanner.st.stats.parsed_lines
          /\ scanner'.st.stats.failed_lines = scanner.st.stats.failed_lines + 1

\* C19: in both scanners, every line read that the scan goes on from adds
\* one to total and to exactly one of parsed and failed, so that
\* total = parsed + failed = the lines read after every line; a line the
\* parser rejects adds to failed and the scan goes on
C19_LineCounting ==
    /\ [](Counting =>
            /\ scanner.st.stats.total_lines = scanner.n
            /\ scanner.st.stats.total_lines
                  = scanner.st.stats.parsed_lines + scanner.st.stats.failed_lines)
    /\ [][(ReadLine /\ scanner'.st.tag = "Run") => CountedOnce]_vars
    /\ [][(ReadLine /\ Rejected(scanner.lines[scanner.n + 1].text)) =>
             /\ scanner'.st.tag = "Run"
             /\ scanner'.st.stats.failed_lines = scanner.st.stats.failed_lines + 1
             /\ scanner'.st.stats.parsed_lines = scanner.st.stats.parsed_lines]_vars

\* the appender scanner has returned Ok from a file of MaxLines lines, after
\* a rejected line and an accepted one
C19_Witness ==
    /\ scanner.with_appender
    /\ scanner.st.tag = "Ok"
    /\ scanner.n = MaxLines
    /\ scanner.st.stats.failed_lines > 0
    /\ scanner.st.stats.parsed_lines > 0
    /\ scanner.lines[1] = ReadOk(LineBad)

\* the three scans of a split run
Scans == {split.whole, split.first, split.second}

\* C20: for any lines and any split of them into two files, when the scans
\* return counts the field-wise sum of the two parts' counts equals the
\* counts of the whole file; and unless the sink fails, the whole file's
\* scan returns counts exactly when both parts' scans do
C20_SplitAdditive ==
    /\ (\A r \in Scans : r.tag = "Ok") =>
          AddStats(split.first.stats, split.second.stats) = split.whole.stats
    /\ (faults = 0 /\ \A r \in Scans : r # Pending) =>
          (split.whole.tag = "Ok" <=> (split.first.tag = "Ok" /\ split.second.tag = "Ok"))

\* MaxLines lines, accepted and rejected ones, split into two non-empty
\* files, all three scans done
C20_Witness ==
    /\ \A r \in Scans : r.tag = "Ok"
    /\ Len(split.lines) = MaxLines
    /\ split.first.stats.total_lines > 0
    /\ split.second.stats.total_lines > 0
    /\ split.whole.stats.parsed_lines > 0
    /\ split.whole.stats.failed_lines > 0

\* the text after the last '.' of a name, the whole name when it has no '.'
LastPart(name) ==
    IF \E i \in 1..Len(name) : name[i] = "."
    THEN SubSeq(name, (CHOOSE i \in 1..Len(name) :
                          name[i] = "." /\ \A j \in (i + 1)..Len(name) : name[j] # ".") + 1,
                Len(name))
    ELSE name

\* a decimal number of at most nine digits, which every i32 holds
ShortNumber(text) == text # <<>> /\ Len(text) <= 9 /\ \A i \in 1..Len(text) : text[i] \in {"0", "1", "2", "3", "4", "5", "6", "7", "8", "9"}

\* an optional sign and decimal digits
SignedNumber(text) ==
    \E sign \in {<<>>, <<"+">>, <<"-">>} :
       \E n \in 1..Len(text) :
          /\ text = sign \o SubSeq(text, Len(text) - n + 1, Len(text))
          /\ \A i \in (Len(text) - n + 1)..Len(text) : text[i] \in {"0", "1", "2", "3", "4", "5", "6", "7", "8", "9"}

NameIs(name) == pid.tag = "Done" /\ file_name = name
Zero == I64(FALSE, <<>>)

\* C21: the pid stored with a file's rows is the text after the last '.' of
\* the file name read as a 32-bit integer ('trace.12345' gives 12345), and 0
\* when that text is no such number; extract_pid gives None for a name
\* without a numeric suffix ('notrace', 'trace.txt')
C21_PidFromSuffix ==
    pid.tag = "Done" =>
       /\ pid.stored = IF pid.found.tag = "Some" THEN pid.found.v ELSE Zero
       /\ ShortNumber(LastPart(file_name)) =>
             pid.found = Some(Value(FALSE, LastPart(file_name)))
       /\ ~SignedNumber(LastPart(file_name)) => pid.found = None
       /\ NameIs(<<"t", "r", "a", "c", "e", ".", "1", "2", "3", "4", "5">>) => pid.found = Some(Value(FALSE, <<"1", "2", "3", "4", "5">>)) /\ pid.stored = Value(FALSE, <<"1", "2", "3", "4", "5">>)
       /\ NameIs(<<"z", "o", "o", "m", "-", "t", "r", "a", "c", "e", "-", "2", "0", "2", "5", "1", "1", "1", "0", "-", "2", "2", "2", "1", "1", "0", ".", "1", "3", "8", "7", "6", "7", "9">>) => pid.stored = Value(FALSE, <<"1", "3", "8", "7", "6", "7", "9">>)
       /\ NameIs(<<"n", "o", "t", "r", "a", "c", "e">>) => pid.found = None /\ pid.stored = Zero
       /\ NameIs(<<"t", "r", "a", "c", "e", ".", "t", "x", "t">>) => pid.found = None /\ pid.stored = Zero
       /\ NameIs(<<"t", "r", "a", "c", "e", ".", "2", "1", "4", "7", "4", "8", "3", "6", "4", "7">>) => pid.stored = Value(FALSE, <<"2", "1", "4", "7", "4", "8", "3", "6", "4", "7">>)
       /\ NameIs(<<"t", "r", "a", "c", "e", ".", "2", "1", "4", "7", "4", "8", "3", "6", "4", "8">>) => pid.found = None /\ pid.stored = Zero
       /\ NameIs(<<"t", "r", "a", "c", "e", ".", "-", "2", "1", "4", "7", "4", "8", "3", "6", "4", "8">>) => pid.stored = Value(TRUE, <<"2", "1", "4", "7", "4", "8", "3", "6", "4", "8">>)
       /\ NameIs(<<"t", "r", "a", "c", "e", ".", "-", "2", "1", "4", "7", "4", "8", "3", "6", "4", "9">>) => pid.found = None /\ pid.stored = Zero

\* 'trace.12345' has gone through extract_pid and its rows get pid 12345
C21_Witness == NameIs(<<"t", "r", "a", "c", "e", ".", "1", "2", "3", "4", "5">>) /\ pid.stored = Value(FALSE, <<"1", "2", "3", "4", "5">>)

\* C22: once process_files_parallel has returned, the rows in the sink are as
\* many as the parsed_lines it returned
C22_RowsEqualParsed == Returned => sink = total_stats.parsed_lines

\* worker w takes a file from the work queue in this step
Claims(w) == wpc[w] = "recv" /\ wpc'[w] = "scan"

\* C23: no worker receives a file from the work queue while another worker
\* of the pool has not yet been spawned
C23_AllStartedBeforeClaim ==
    [][\A w \in Workers : Claims(w) => \A v \in Workers : wpc[v] # "unspawned"]_vars

\* both lines of the tail have been parsed
TailParsed == tails.resumed # Pending /\ tails.regular # Pending

\* C24: for every tail, parse_resumed accepts the resumed line iff
\* parse_regular accepts the regular line with the same tail, and the two
\* events have the same arguments, return value, error code, error message
\* and duration
C24_ResumedTailAsRegular ==
    TailParsed =>
       /\ tails.resumed.tag = "Some" <=> tails.regular.tag = "Some"
       /\ (tails.resumed.tag = "Some" /\ tails.regular.tag = "Some") =>
             /\ tails.resumed.v.args = tails.regular.v.args
             /\ tails.resumed.v.return_value = tails.regular.v.return_value
             /\ tails.resumed.v.error_code = tails.regular.v.error_code
             /\ tails.resumed.v.error_message = tails.regular.v.error_message
             /\ tails.resumed.v.duration = tails.regular.v.duration

\* the three grammars have been applied to the line
GrammarsDone == grammars.regular # Pending

\* the 1-based place of the first c in text at or after place from, 0 if none
FirstAt(text, c, from) ==
    IF \E i \in from..Len(text) : text[i] = c
    THEN CHOOSE i \in from..Len(text) : text[i] = c /\ \A j \in from..(i - 1) : text[j] # c
    ELSE 0

\* the places of the line's first space, the first '(' after it and the
\* first ')' after that; 0 where there is none
SpacePlace == FirstAt(input_line, " ", 1)
OpenPlace == IF SpacePlace = 0 THEN 0 ELSE FirstAt(input_line, "(", SpacePlace + 1)
ClosePlace == IF OpenPlace = 0 THEN 0 ELSE FirstAt(input_line, ")", OpenPlace + 1)

\* after the first ')' come whitespace, if any, and then "= "
EqualsFollows ==
    /\ ClosePlace > 0
    /\ \E i \in (ClosePlace + 1)..(Len(input_line) - 1) :
          /\ input_line[i] = "=" /\ input_line[i + 1] = " "
          /\ \A j \in (ClosePlace + 1)..(i - 1) : IsWhitespace(input_line[j])

DispatchDone == GrammarsDone /\ parse_result # Pending

Event(r) == r.tag = "Some"

\* C26: parse_line gives what parse_unfinished gives if that is an Event,
\* else what parse_resumed gives if that is an Event, else what
\* parse_regular gives
C26_DispatchOrder ==
    DispatchDone =>
       parse_result = IF Event(grammars.unfinished) THEN grammars.unfinished
                      ELSE IF Event(grammars.resumed) THEN grammars.resumed
                      ELSE grammars.regular

\* the same, on the lines on which no earlier grammar panics
C26_DispatchOrderWithoutPanic ==
    (DispatchDone /\ grammars.resumed.tag # "Panic") =>
       parse_result = IF Event(grammars.unfinished) THEN grammars.unfinished
                      ELSE IF Event(grammars.resumed) THEN grammars.resumed
                      ELSE grammars.regular

\* worker w's thread ends in this step, having obtained its appender before
ExitsWithHandle(w) ==
    /\ wpc[w] \notin Exited \cup {"unspawned", "clone", "appender"}
    /\ wpc'[w] \in Exited

\* C27: a worker that obtained its appender leaves only through the flush
\* that follows the end of the queue, on every exit path
C27_FlushOnEveryExit ==
    [][\A w \in Workers : ExitsWithHandle(w) => wpc[w] = "flush"]_vars

\* the same, for the exits that are not panics
C27_FlushOnEveryReturn ==
    [][\A w \in Workers : (ExitsWithHandle(w) /\ wpc'[w] # "panicked") => wpc[w] = "flush"]_vars

\* every worker thread has ended
AllWorkersExited == \A w \in Workers : wpc[w] \in Exited

\* the files whose scan returned Ok
Completed == {f \in Files : hist[f].result = "Ok"}

\* C28: once all workers have finished, the position of the progress bar is
\* the number of files completed
C28_FinalPosition ==
    (~sequential /\ AllWorkersExited) =>
       position = files_processed /\ position = Cardinality(Completed)

\* some worker thread has been started
WorkersRun == \E w \in Workers : wpc[w] # "unspawned"

\* the file is in the work queue
Queued(f) == \E i \in 1..Len(queue) : queue[i] = f

\* C29: when the first worker is started the work queue has been loaded with
\* every file and sealed; no file is added while workers run, and a worker
\* that finds the queue empty is told it is exhausted and does not block
C29_LoadedAndSealedFirst ==
    /\ [](WorkersRun =>
            /\ ~sender_alive
            /\ \A f \in Files : Queued(f) \/ hist[f].claimed_by # <<>>)
    /\ [][WorkersRun => Len(queue') <= Len(queue)]_vars
    /\ [](\A w \in Workers : (wpc[w] = "recv" /\ queue = <<>>) => ENABLED RecvClosed(w))

\* every file of a full list has been claimed and a worker, finding the
\* queue empty, has left its loop for the flush
C29_Witness ==
    /\ Len(files) = MaxFiles
    /\ \A f \in Files : hist[f].claimed_by # <<>>
    /\ \E w \in Workers : wpc[w] = "flush"
    /\ \E w \in Workers : wpc[w] = "recv"

\* some worker stands between its add to total_lines and its add to
\* failed_lines, with lines of its file not yet in all three counters
MidUpdate == \E w \in Workers : wpc[w] \in {"add_parsed", "add_failed"} /\ wstats[w].total_lines > 0

\* C30: the shared counters always satisfy total_lines >= parsed_lines +
\* failed_lines, and total_lines = parsed_lines + failed_lines once all
\* workers are joined
C30_TotalCoversParsedAndFailed ==
    ~sequential =>
       /\ total_lines >= parsed_lines + failed_lines
       /\ (mainpc = "par_join" /\ idx = NumWorkers) =>
             total_lines = parsed_lines + failed_lines
       /\ Returned =>
             total_stats.total_lines = total_stats.parsed_lines + total_stats.failed_lines

\* a worker has added its file's total and not yet its parsed and failed
\* lines: the counters differ
C30_Witness ==
    /\ ~sequential
    /\ MidUpdate
    /\ total_lines > parsed_lines + failed_lines

\* main hands the file at idx to process_file in this step
Opens == mainpc = "seq_loop" /\ idx \in Files /\ hist'[idx].scans = hist[idx].scans + 1

\* the rows and the statistics of the files before the one at idx
RowsBefore == SumOkStats(idx - 1).parsed_lines

\* C31: the sequential driver takes the files one at a time in the order
\* supplied; a file is opened only when every file before it has had its
\* batch appended and its statistics merged; rows reach the sink only in the
\* one step that follows the reading of a file's last line, and a file whose
\* read fails appends none
C31_OneFileAtATime ==
    /\ [](sequential =>
            \A f \in Files :
               /\ hist[f].scans <= 1
               /\ f > idx => hist[f].scans = 0
               /\ (f < idx /\ idx <= Len(files) + 1) => hist[f].scans = 1 /\ hist[f].result = "Ok")
    /\ [][Opens => /\ \A f \in Files : f < idx => hist[f].result = "Ok"
                   /\ total_stats = SumOkStats(idx - 1)
                   /\ sink = RowsBefore]_vars
    /\ [][sink' # sink => /\ mainpc = "seq_read"
                          /\ scanner.lines = files[idx].lines
                          /\ scanner.n = Len(scanner.lines)
                          /\ mainpc' # "seq_read"]_vars
    /\ [](\A f \in Files :
             (sequential /\ f = idx /\ hist[f].result = "Err" /\ Unreadable(files[f])) =>
                sink = RowsBefore)

\* the second file is being read, the first file's rows in the sink and its
\* statistics in the running total
C31_Witness ==
    /\ sequential
    /\ mainpc = "seq_read"
    /\ idx = 2
    /\ sink > 0
    /\ total_stats.parsed_lines = sink
    /\ scanner.n > 0
====
